---- MODULE Spec2Model ----
(***************************************************************************)
(* One invocation of the robotx CLI `deploy` command: main -> Execute ->   *)
(* runDeploy (resolve, package, upload, local/remote build, poll, publish, *)
(* emit) -> HandleError -> exit code.                                      *)
(*                                                                         *)
(* Strings are sequences of chunks (a chunk is a TLA+ string); the         *)
(* concatenation of the chunks is the Go string.  Every phrase the code    *)
(* searches for with strings.Contains is a chunk of its own wherever it    *)
(* occurs, so Contains is a membership test on lower-cased chunks.         *)
(* Time is counted in milliseconds.                                        *)
(*                                                                         *)
(* Two functions are also explored on their own, over bounded inputs:      *)
(* packageSource with shouldSkip (SpecArchive) and the derivation and      *)
(* validation of the project name (SpecName).                              *)
(***************************************************************************)
EXTENDS Integers, Sequences, FiniteSets, TLC

VARIABLES
    flags,       \* the flag-bound globals of deploy.go / root.go
    pc,          \* position of the single thread of control
    proj,        \* runDeploy's `proj` (*client.Project)
    build,       \* runDeploy's `build` (*client.Build)
    commit,      \* runDeploy's `commit` (commit id, "" when nil or empty)
    elapsed,     \* time.Since(start) inside waitForBuild, in ms
    waitResult,  \* which return statement of waitForBuild was taken
    published,   \* PublishBuild returned without error
    previewURL,  \* runDeploy's `previewURL`
    productionURL, \* runDeploy's `productionURL`
    bundles,     \* the temporary zip files: "none", "exists" or "removed"
    defers,      \* the bundles runDeploy has a deferred os.Remove for
    err,         \* the error returned by cmd.Execute()
    stdout,      \* what was written to os.Stdout, as a sequence of kinds
    stderr,      \* what was written to os.Stderr, as a sequence of kinds
    response,    \* the payload of the success envelope emitSuccess wrote
    report,      \* what HandleError wrote to the diagnostic stream
    exitCode,    \* the process exit status (-1 while running)
    trace,       \* the backend calls and shell steps made so far, in order
    observed,    \* <<cause, message>> pairs a caller has seen over invocations
    tree,        \* packageSource: the regular files under the project root
    zip,         \* packageSource: the entry names written to the archive
    name,        \* runDeploy: the raw project name (flag or directory name)
    nameErr,     \* validateProjectName's verdict on the derived name
    local,       \* the local-build overrides, the BuildPlan and the project
    ran,         \* runLocalBuild: the shell commands executed, in order
    artifactDir, \* runDeploy's `artifactDir`
    args,        \* the --project-id / --build-id flags of publish and status
    login,       \* runLogin: --timeout, the poll interval, the token, the log
    config       \* the configuration file login writes to

(* the state of the deploy invocation *)
invocation == <<flags, pc, proj, build, commit, elapsed, waitResult, published,
                previewURL, productionURL, bundles, defers, err, stdout,
                stderr, response, report, exitCode, trace, observed>>

(* the arguments and results of the functions explored on their own *)
pure ==
    <<tree, zip, name, nameErr, local, ran, artifactDir, args, login, config>>

vars == <<invocation, pure>>

----------------------------------------------------------------------------
(* Bounds of the exploration *)

MaxTimeout == 6
MaxLatency == 2000

(* Values fixed by the program *)

Second == 1000
PollIntervalSec == 5

PollInterval == PollIntervalSec * Second

Timeouts == {-1, 0, 1, MaxTimeout}
StmtDelays == {0, 1}
GetLatencies == {0, MaxLatency}

----------------------------------------------------------------------------
(* Strings *)

ToLower(chunk) ==
    CASE chunk = "API error" -> "api error"
      [] chunk = "API error:" -> "api error:"
      [] OTHER -> chunk

Contains(msg, phrase) == \E i \in 1..Len(msg) : ToLower(msg[i]) = phrase

SecondsText(n) ==
    CASE n = -1 -> "-1" [] n = 0 -> "0" [] n = 1 -> "1" [] n = 5 -> "5"
      [] n = 6 -> "6" [] n = 7 -> "7" [] n = 8 -> "8"
      [] n = 10 -> "10" [] n = 11 -> "11" [] n = 12 -> "12"
      [] OTHER -> "N"

----------------------------------------------------------------------------
(* Builds *)

Build(id, status) ==
    [isNil |-> FALSE, BuildID |-> id, Status |-> status, PreviewPath |-> ""]
NilBuild == [isNil |-> TRUE, BuildID |-> "", Status |-> "", PreviewPath |-> ""]

WithPreview(b, path) == [b EXCEPT !.PreviewPath = path]

PreviewPaths == {"", "https://cdn.example/b1"}
PublicPaths == {"", " ", "https://prod.example/app"}

Statuses == {"queued", "running", "success", "failed", "weird"}

UploadBuilds == {NilBuild, Build("b1", "queued"), Build("b1", "success")}
UploadCommits == {"", "c1"}
TriggerBuilds == {Build("b1", "queued"), Build("", "queued"),
                  Build("b1", "failed"), Build("b1", "weird")}
ArtifactBuilds == {Build("b1", "success"), Build("b1", "running"),
                   Build("", "success"), Build("b1", "failed"),
                   WithPreview(Build("b1", "success"),
                               "https://cdn.example/b1")}
GetBuildIDs == {"b1", "b2"}

----------------------------------------------------------------------------
(* Backend failures: what a failed call hands to parseError / doRequest *)

HTTPFailure(message) ==
    [transport |-> FALSE, StatusCode |-> "500", Message |-> message]
TransportFailure ==
    [transport |-> TRUE, StatusCode |-> "", Message |-> ""]
NoFailure == [transport |-> FALSE, StatusCode |-> "200", Message |-> ""]

BackendFailures == {HTTPFailure("quota exceeded"), HTTPFailure(""),
                    TransportFailure}
BackendOutcomes == {NoFailure} \cup BackendFailures

(* exit status of a local shell step, in the shape of a call outcome *)
ShellExit(ok) ==
    IF ok THEN NoFailure
    ELSE [transport |-> FALSE, StatusCode |-> "exit status 1", Message |-> ""]

parseError(resp) ==
    IF resp.Message # ""
    THEN <<"API error", " (status ", resp.StatusCode, "): ", resp.Message>>
    ELSE <<"API error:", " status ", resp.StatusCode>>

doRequestError == <<"request failed", ": ", "dial tcp: connection refused">>

CallError(resp) ==
    IF resp.transport THEN doRequestError ELSE parseError(resp)

----------------------------------------------------------------------------
(* Errors *)

NoErr == [kind |-> "nil", Code |-> "", Message |-> <<>>, Details |-> <<>>,
          ExitCode |-> 0, Err |-> <<>>]

newCLIError(code, message, exit, inner) ==
    [kind |-> "cli", Code |-> code, Message |-> message, Details |-> <<>>,
     ExitCode |-> exit, Err |-> inner]

PlainError(message) ==
    [kind |-> "plain", Code |-> "", Message |-> message, Details |-> <<>>,
     ExitCode |-> 0, Err |-> <<>>]

CobraErrors == {
    <<"accepts at most 1 arg(s), received 2">>,
    <<"unknown flag: --bogus">>,
    <<"invalid argument \"maybe\" for \"--", "publish", "\" flag: ",
      "strconv.ParseBool: parsing \"maybe\": invalid syntax">> }

classifyError(e) ==
    IF e.kind = "cli"
    THEN [code |-> e.Code, message |-> e.Message, details |-> e.Details,
          exitCode |-> e.ExitCode]
    ELSE LET message == IF e.Message = <<>> THEN <<"unknown error">>
                        ELSE e.Message
         IN  CASE Contains(message, "build failed")
                  \/ Contains(message, "build timeout")
                  \/ Contains(message, "unknown build status") ->
                    [code |-> "build_failed", message |-> message,
                     details |-> <<>>, exitCode |-> 3]
               [] Contains(message, "publish") ->
                    [code |-> "publish_failed", message |-> message,
                     details |-> <<>>, exitCode |-> 4]
               [] Contains(message, "api error")
                  \/ Contains(message, "request failed") ->
                    [code |-> "api_error", message |-> message,
                     details |-> <<>>, exitCode |-> 2]
               [] OTHER ->
                    [code |-> "general_error", message |-> message,
                     details |-> <<>>, exitCode |-> 1]

isJSONOutput(f) == f.outputJSON \/ f.outputFormat = "json"

NoReport == [mode |-> "none", code |-> "", message |-> <<>>,
             details |-> <<>>]

(* HandleError with the exit status of the earlier main: always 1 *)
HandleErrorExitOne(e, f) ==
    LET c == classifyError(e) IN
    [exit |-> 1,
     report |-> IF isJSONOutput(f)
                THEN [mode |-> "json", code |-> c.code,
                      message |-> c.message, details |-> c.details]
                ELSE [mode |-> "text", code |-> "",
                      message |-> c.message, details |-> <<>>]]

HandleError(e, f) ==
    LET c == classifyError(e) IN
    [exit |-> c.exitCode,
     report |-> IF isJSONOutput(f)
                THEN [mode |-> "json", code |-> c.code,
                      message |-> c.message, details |-> c.details]
                ELSE [mode |-> "text", code |-> "",
                      message |-> c.message, details |-> <<>>]]

normalizeOutputConfig(f) ==
    LET fmt == IF f.outputJSON THEN "json"
               ELSE IF f.outputFormat = "" THEN "text" ELSE f.outputFormat
    IN  [format |-> fmt,
         err |-> IF fmt # "text" /\ fmt # "json"
                 THEN newCLIError("invalid_output_format",
                        <<"invalid --output value (expected text or json)">>,
                        1, <<>>)
                 ELSE NoErr]

----------------------------------------------------------------------------
(* Output streams: each stream is the sequence of the kinds of text written *)
(* to it ("narration", "subprocess", "subprocess_err", "envelope",          *)
(* "error_envelope", "error_line")                                          *)

(* the narration goes to the primary stream in either mode *)
logWriterStdout(f) == "stdout"

logWriter(f) == IF isJSONOutput(f) THEN "stderr" ELSE "stdout"

WriteTo(out, dest, kind) ==
    IF dest = "stdout"
    THEN [out EXCEPT !.stdout = Append(out.stdout, kind)]
    ELSE [out EXCEPT !.stderr = Append(out.stderr, kind)]

logf(f, out) == WriteTo(out, logWriter(f), "narration")

(* the child of runShell writes to its stdout and to its stderr *)
runShell(f, out) ==
    WriteTo(WriteTo(out, IF isJSONOutput(f) THEN "stderr" ELSE "stdout",
                    "subprocess"),
            "stderr", "subprocess_err")

Streams == [stdout |-> stdout, stderr |-> stderr]
SetStreams(out) == stdout' = out.stdout /\ stderr' = out.stderr

----------------------------------------------------------------------------
(* Projects and URLs *)

BaseURL == "https://x"

Project(id, preview, publish, refPreview, refPublish) ==
    [ProjectID |-> id, PreviewURL |-> preview, PublishURL |-> publish,
     RuntimeRefs |-> [Preview |-> refPreview, Publish |-> refPublish]]
NilProject == Project("", "", "", "", "")

Projects == {Project("proj_1", "", "", "", ""),
             Project("proj_1", "https://p.example/preview",
                     "https://p.example/live", "", ""),
             Project("proj_1", "", "", "https://r.example/preview",
                     "https://r.example/live"),
             Project("", "", "", "", "")}

TrimSpace(s) == IF s = " " THEN "" ELSE s

(* the conventional URL wins over the URLs the backend states *)
projectPreviewURLConventionFirst(project, fallbackBaseURL) ==
    IF TrimSpace(project.ProjectID) # "" /\ fallbackBaseURL # ""
    THEN <<fallbackBaseURL, "/preview/", TrimSpace(project.ProjectID)>>
    ELSE IF TrimSpace(project.PreviewURL) # ""
    THEN <<TrimSpace(project.PreviewURL)>>
    ELSE IF TrimSpace(project.RuntimeRefs.Preview) # ""
    THEN <<TrimSpace(project.RuntimeRefs.Preview)>>
    ELSE <<>>

projectPreviewURL(project, fallbackBaseURL) ==
    IF TrimSpace(project.PreviewURL) # ""
    THEN <<TrimSpace(project.PreviewURL)>>
    ELSE IF TrimSpace(project.RuntimeRefs.Preview) # ""
    THEN <<TrimSpace(project.RuntimeRefs.Preview)>>
    ELSE IF TrimSpace(project.ProjectID) = "" \/ fallbackBaseURL = ""
    THEN <<>>
    ELSE <<fallbackBaseURL, "/preview/", TrimSpace(project.ProjectID)>>

resolvePublishURL(fallbackBaseURL, project) ==
    IF TrimSpace(project.PublishURL) # ""
    THEN <<TrimSpace(project.PublishURL)>>
    ELSE IF TrimSpace(project.RuntimeRefs.Publish) # ""
    THEN <<TrimSpace(project.RuntimeRefs.Publish)>>
    ELSE IF TrimSpace(project.ProjectID) = "" \/ fallbackBaseURL = ""
    THEN <<>>
    ELSE <<fallbackBaseURL, "/", TrimSpace(project.ProjectID)>>

(* the project's own preview URL first, the build's preview path second *)
resolvePreviewURLProjectFirst(baseURL, project, b) ==
    IF projectPreviewURL(project, baseURL) # <<>>
    THEN projectPreviewURL(project, baseURL)
    ELSE <<TrimSpace(b.PreviewPath)>>

resolvePreviewURL(baseURL, project, b) ==
    IF ~b.isNil /\ TrimSpace(b.PreviewPath) # ""
    THEN <<TrimSpace(b.PreviewPath)>>
    ELSE projectPreviewURL(project, baseURL)

----------------------------------------------------------------------------
(* Temporary bundles *)

NoBundles == [source |-> "none", artifact |-> "none"]

(* the deferred os.Remove calls of runDeploy, run when it returns *)
runDefers(b, d) ==
    [k \in {"source", "artifact"} |->
        IF k \in d /\ b[k] = "exists" THEN "removed" ELSE b[k]]

-----------------------------------------------------------------------------
(* The local build: overrides, the BuildPlan and the commands that resolve *)

(* the build_plan object of the upload response, as the backend's JSON
   states it; needs_build is a key the object may omit *)
PlanJSON(needs, install, buildc, out) ==
    [present |-> TRUE, needs_build |-> needs, install_command |-> install,
     build_command |-> buildc, output_dir |-> out]

(* a response without scanner_result or without build_plan *)
NoPlanJSON ==
    [present |-> FALSE, needs_build |-> "absent", install_command |-> "",
     build_command |-> "", output_dir |-> ""]

(* encoding/json into client.BuildPlan: NeedsBuild is a plain bool, so an
   omitted needs_build key leaves it at its zero value, false *)
decodeBuildPlan(j) ==
    [isNil |-> ~j.present,
     NeedsBuild |-> j.needs_build = "true",
     InstallCommand |-> j.install_command,
     BuildCommand |-> j.build_command,
     OutputDir |-> j.output_dir]

BuildPlans ==
    {NoPlanJSON} \cup
    {PlanJSON(n, i, b, o) : n \in {"absent", "true", "false"},
                            i \in {"", "npm ci"},
                            b \in {"", "vite build"},
                            o \in {"", " ", "build"}}

InstallOverrides == {"", " ", "make deps"}
BuildOverrides == {"", " ", "make all"}
OutputDirOverrides == {"", " ", "out"}

(* --install-command, --build-command, --output-dir, the plan of the upload
   response, and whether <project>/package.json exists *)
Local(install, buildc, out, plan, manifest) ==
    [installCmd |-> install, buildCmd |-> buildc, outputDir |-> out,
     plan |-> plan, packageJSON |-> manifest]

NoLocal == Local("", "", "", NoPlanJSON, TRUE)

LocalInputs ==
    {Local(i, b, o, p, m) : i \in InstallOverrides, b \in BuildOverrides,
                            o \in OutputDirOverrides, p \in BuildPlans,
                            m \in BOOLEAN}

(* what a deploy invocation is started with: a project with or without a
   package.json, no override, no plan *)
DeployLocals(f) ==
    IF f.localBuild /\ f.wait /\ f.outputFormat = "text"
    THEN {NoLocal, Local("", "", "", NoPlanJSON, FALSE)}
    ELSE {NoLocal}

NoArgs ==
    [command |-> "deploy", projectID |-> "", buildID |-> "", logs |-> FALSE]

(* the package.json convention is tried before the BuildPlan *)
localCommandsManifestFirst(l) ==
    LET plan == decodeBuildPlan(l.plan)
        install0 == TrimSpace(l.installCmd)
        build0 == TrimSpace(l.buildCmd)
        install1 == IF install0 = "" /\ l.packageJSON
                    THEN "npm install" ELSE install0
        build1 == IF build0 = "" /\ l.packageJSON
                  THEN "npm run build" ELSE build0
        install2 == IF install1 = "" /\ ~plan.isNil
                       /\ TrimSpace(plan.InstallCommand) # ""
                    THEN TrimSpace(plan.InstallCommand) ELSE install1
        build2 == IF build1 = "" /\ ~plan.isNil
                     /\ TrimSpace(plan.BuildCommand) # ""
                  THEN TrimSpace(plan.BuildCommand) ELSE build1
    IN IF ~plan.isNil /\ ~plan.NeedsBuild
          /\ l.installCmd = "" /\ l.buildCmd = ""
       THEN [install |-> "", build |-> ""]
       ELSE [install |-> install2, build |-> build2]

(* runLocalBuild: the resolved install and build commands *)
localCommands(l) ==
    LET plan == decodeBuildPlan(l.plan)
        install0 == TrimSpace(l.installCmd)
        build0 == TrimSpace(l.buildCmd)
        install1 == IF install0 = "" /\ ~plan.isNil
                       /\ TrimSpace(plan.InstallCommand) # ""
                    THEN TrimSpace(plan.InstallCommand) ELSE install0
        build1 == IF build0 = "" /\ ~plan.isNil
                     /\ TrimSpace(plan.BuildCommand) # ""
                  THEN TrimSpace(plan.BuildCommand) ELSE build0
        install2 == IF install1 = "" /\ l.packageJSON
                    THEN "npm install" ELSE install1
        build2 == IF build1 = "" /\ l.packageJSON
                  THEN "npm run build" ELSE build1
    IN IF ~plan.isNil /\ ~plan.NeedsBuild
          /\ l.installCmd = "" /\ l.buildCmd = ""
       THEN [install |-> "", build |-> ""]
       ELSE [install |-> install2, build |-> build2]

(* the plan's output directory wins over --output-dir *)
artifactDirPlanFirst(l) ==
    LET plan == decodeBuildPlan(l.plan)
    IN IF ~plan.isNil /\ TrimSpace(plan.OutputDir) # ""
       THEN TrimSpace(plan.OutputDir)
       ELSE IF l.outputDir # "" THEN l.outputDir ELSE "dist"

(* runDeploy: the directory packaged as build artifacts *)
artifactDirOf(l) ==
    LET plan == decodeBuildPlan(l.plan)
        dir0 == l.outputDir
        dir1 == IF dir0 = "" /\ ~plan.isNil /\ TrimSpace(plan.OutputDir) # ""
                THEN TrimSpace(plan.OutputDir) ELSE dir0
    IN IF dir1 = "" THEN "dist" ELSE dir1

(* no login is in progress; no configuration file is looked at *)
NoLogin ==
    [timeout |-> 0, interval |-> 0, waitFor |-> 0, token |-> "",
     written |-> FALSE, log |-> <<>>]
NoFile == [exists |-> FALSE, malformed |-> FALSE, lines |-> <<>>]

----------------------------------------------------------------------------
(* The invocation *)

(* the command lines explored: --output json is given with the default   *)
(* flags, --json alone, a --timeout only together with --wait (which is  *)
(* where it is read), and a --timeout below 1 only with the other flags  *)
(* at their defaults                                                     *)
FlagSets ==
    {f \in [publish : BOOLEAN, wait : BOOLEAN, localBuild : BOOLEAN,
            timeout : Timeouts, outputJSON : BOOLEAN,
            outputFormat : {"text", "json", "xml"}] :
        /\ f.outputJSON => f.outputFormat = "text"
        /\ f.outputFormat = "json" =>
               (f.publish /\ f.wait /\ f.localBuild /\ f.timeout = MaxTimeout)
        /\ ~f.wait => f.timeout = MaxTimeout
        /\ f.timeout < 1 => (f.publish /\ f.localBuild)}

NoResponse == [success |-> FALSE]

(* no archive walk and no name check is under way *)
NoPure ==
    /\ tree = <<>>
    /\ zip = <<>>
    /\ name = <<>>
    /\ nameErr = "none"
    /\ ran = <<>>
    /\ artifactDir = ""
    /\ args = NoArgs
    /\ login = NoLogin
    /\ config = NoFile

Fresh(f) ==
    /\ flags = f
    /\ pc = "start"
    /\ proj = NilProject
    /\ build = NilBuild
    /\ commit = ""
    /\ elapsed = 0
    /\ waitResult = "none"
    /\ published = FALSE
    /\ previewURL = <<>>
    /\ productionURL = <<>>
    /\ bundles = NoBundles
    /\ defers = {}
    /\ err = NoErr
    /\ stdout = <<>>
    /\ stderr = <<>>
    /\ response = NoResponse
    /\ report = NoReport
    /\ exitCode = -1
    /\ trace = <<>>

Init ==
    /\ \E f \in FlagSets : Fresh(f) /\ local \in DeployLocals(f)
    /\ observed = {}
    /\ NoPure

MsgNamePattern ==
    <<"project name must be 4-63 chars of lowercase letters, ",
      "digits, or hyphens">>

MsgLocalUnsupported ==
    <<"server did not return a build ID; ",
      "local build upload is not supported by this server">>

Call(op, resp, status) ==
    [op |-> op, ok |-> resp = NoFailure, status |-> status, resp |-> resp,
     id |-> "", path |-> "", arg |-> ""]

(* a call whose response carries a build *)
BuildCall(op, resp, b) ==
    [op |-> op, ok |-> resp = NoFailure,
     status |-> IF resp = NoFailure THEN b.Status ELSE "",
     resp |-> resp,
     id |-> IF resp = NoFailure THEN b.BuildID ELSE "",
     path |-> IF resp = NoFailure THEN b.PreviewPath ELSE "", arg |-> ""]

(* a call made with the build id `buildID` as its argument *)
OnBuild(call, buildID) == [call EXCEPT !.arg = buildID]

(* a call whose response carries a public path *)
PathCall(op, resp, publicPath) ==
    [op |-> op, ok |-> resp = NoFailure, status |-> "", resp |-> resp,
     id |-> "", path |-> publicPath, arg |-> ""]

(* `return e` from RunE: the deferred removals run, and control goes back *)
(* to main with the error; b is the state of the bundles at the return    *)
ReturnWith(e, b) ==
    /\ pc' = "returned"
    /\ err' = e
    /\ bundles' = runDefers(b, defers)

Return(e) == ReturnWith(e, bundles)

(* runDeploy goes on to its next statement *)
Goto(p) == pc' = p /\ UNCHANGED <<err, bundles>>

\* rootCmd.Execute(): cobra parses the command line, then PersistentPreRunE
Execute ==
    /\ pc = "start"
    /\ \E perr \in {<<>>} \cup CobraErrors :
         IF perr # <<>>
         THEN Return(PlainError(perr)) /\ UNCHANGED flags
         ELSE LET n == normalizeOutputConfig(flags) IN
              IF n.err.kind # "nil"
              THEN Return(n.err) /\ UNCHANGED flags
              ELSE /\ flags' = [flags EXCEPT !.outputFormat = n.format]
                   /\ Goto("path")
    /\ UNCHANGED <<proj, build, commit, elapsed, waitResult, published,
                   previewURL, productionURL, defers, stdout, stderr,
                   response, report, exitCode, trace, observed, pure>>

\* runDeploy: filepath.Abs and os.Stat of the project path
ResolvePath ==
    /\ pc = "path"
    /\ \E absOK \in BOOLEAN, exists \in BOOLEAN :
         IF ~absOK
         THEN Return(newCLIError("invalid_project_path",
                       <<"invalid project path">>, 1, <<"getwd failed">>))
         ELSE IF ~exists
         THEN Return(newCLIError("invalid_project_path",
                       <<"project path does not exist: ", "/abs">>, 1, <<>>))
         ELSE Goto("config")
    /\ UNCHANGED <<flags, proj, build, commit, elapsed, waitResult, published,
                   previewURL, productionURL, defers, stdout, stderr,
                   response, report, exitCode, trace, observed, pure>>

\* runDeploy: base_url and api_key from viper
CheckConfig ==
    /\ pc = "config"
    /\ \E baseURL \in {"", BaseURL}, apiKey \in {"", "key"} :
         IF baseURL = ""
         THEN Return(newCLIError("missing_base_url",
           <<"base URL is required (use --base-url or set ROBOTX_BASE_URL)">>,
           1, <<>>))
         ELSE IF apiKey = ""
         THEN Return(newCLIError("missing_api_key",
           <<"API key is required (use --api-key or set ROBOTX_API_KEY)">>,
           1, <<>>))
         ELSE Goto("name")
    /\ UNCHANGED <<flags, proj, build, commit, elapsed, waitResult, published,
                   previewURL, productionURL, defers, stdout, stderr,
                   response, report, exitCode, trace, observed, pure>>

(* the name is validated only after the backend was asked to resolve it *)
ResolveNameAfterCreate ==
    /\ pc = "name"
    /\ \E verdict \in {"ok", "empty", "pattern"} :
         CASE verdict = "empty" ->
                /\ Return(newCLIError("invalid_project_name",
                         <<"project name is required">>, 1, <<>>))
                /\ UNCHANGED trace
           [] verdict = "pattern" ->
                /\ Return(newCLIError("invalid_project_name",
                         MsgNamePattern,
                         1, <<>>))
                /\ trace' = Append(trace, Call("CreateProject", NoFailure, ""))
           [] OTHER -> Goto("resolve") /\ UNCHANGED trace
    /\ UNCHANGED <<flags, proj, build, commit, elapsed, waitResult, published,
                   previewURL, productionURL, defers, stdout, stderr,
                   response, report, exitCode, observed, pure>>

\* runDeploy: derive the project name and validateProjectName
ResolveName ==
    /\ pc = "name"
    /\ \E verdict \in {"ok", "empty", "pattern"} :
         CASE verdict = "empty" ->
                Return(newCLIError("invalid_project_name",
                         <<"project name is required">>, 1, <<>>))
           [] verdict = "pattern" ->
                Return(newCLIError("invalid_project_name",
                         MsgNamePattern,
                         1, <<>>))
           [] OTHER -> Goto("resolve")
    /\ UNCHANGED <<flags, proj, build, commit, elapsed, waitResult, published,
                   previewURL, productionURL, defers, stdout, stderr,
                   response, report, exitCode, trace, observed, pure>>

(* CreateProject with the error of the call dropped: the pipeline goes on *)
CreateProjectNoAbort ==
    /\ pc = "resolve"
    /\ \E resp \in BackendOutcomes, p \in Projects :
         /\ trace' = Append(trace, Call("CreateProject", resp, ""))
         /\ proj' = IF resp = NoFailure THEN p ELSE NilProject
    /\ SetStreams(logf(flags, Streams))
    /\ Goto("package")
    /\ UNCHANGED <<flags, build, commit, elapsed, waitResult, published,
                   previewURL, productionURL, defers, response, report,
                   exitCode, observed, pure>>

\* runDeploy: c.CreateProject (create-or-update by name)
CreateProject ==
    /\ pc = "resolve"
    /\ \E resp \in BackendOutcomes, p \in Projects :
         /\ trace' = Append(trace, Call("CreateProject", resp, ""))
         /\ IF resp # NoFailure
            THEN /\ Return(newCLIError("api_error",
                          <<"failed to resolve project">>, 2, CallError(resp)))
                 /\ SetStreams(logf(flags, Streams))
                 /\ UNCHANGED proj
            ELSE /\ proj' = p
                 /\ SetStreams(logf(flags, logf(flags, Streams)))
                 /\ Goto("package")
    /\ UNCHANGED <<flags, build, commit, elapsed, waitResult, published,
                   previewURL, productionURL, defers, response, report,
                   exitCode, observed, pure>>

\* runDeploy: packageSource(absPath) and the deferred os.Remove(zipPath)
PackageSource ==
    /\ pc = "package"
    /\ \E outcome \in {"ok", "create_failed", "walk_failed"} :
         CASE outcome = "create_failed" ->
                /\ Return(newCLIError("package_failed",
                      <<"failed to package source">>, 1,
                      <<"open /tmp/robotx-source.zip: no space left">>))
                /\ SetStreams(logf(flags, Streams))
                /\ UNCHANGED defers
           [] outcome = "walk_failed" ->
                /\ ReturnWith(newCLIError("package_failed",
                      <<"failed to package source">>, 1, <<"walk error">>),
                      [bundles EXCEPT !.source = "removed"])
                /\ SetStreams(logf(flags, Streams))
                /\ UNCHANGED defers
           [] OTHER ->
                /\ bundles' = [bundles EXCEPT !.source = "exists"]
                /\ defers' = defers \cup {"source"}
                /\ SetStreams(logf(flags, logf(flags, Streams)))
                /\ pc' = "upload"
                /\ UNCHANGED err
    /\ UNCHANGED <<flags, proj, build, commit, elapsed, waitResult, published,
                   previewURL, productionURL, response, report, exitCode,
                   trace, observed, pure>>

(* UploadSource without the test of the build id in local-build mode *)
UploadSourceNoIdCheck ==
    /\ pc = "upload"
    /\ \E resp \in BackendOutcomes, c \in UploadCommits, b \in UploadBuilds :
         /\ (resp # NoFailure \/ c = "") => b = NilBuild
         /\ trace' = Append(trace, BuildCall("UploadSource", resp, b))
         /\ SetStreams(logf(flags, Streams))
         /\ IF resp # NoFailure
            THEN /\ Return(newCLIError("api_error",
                            <<"failed to upload source">>, 2, CallError(resp)))
                 /\ UNCHANGED <<build, commit>>
            ELSE /\ commit' = c
                 /\ build' = b
                 /\ Goto(IF flags.localBuild THEN "install" ELSE "remote")
    /\ UNCHANGED <<flags, proj, elapsed, waitResult, published, previewURL,
                   productionURL, defers, response, report, exitCode,
                   observed, pure>>

\* runDeploy: c.UploadSource, then the branch on localBuild
UploadSource ==
    /\ pc = "upload"
    /\ \E resp \in BackendOutcomes, c \in UploadCommits, b \in UploadBuilds :
         /\ (resp # NoFailure \/ c = "") => b = NilBuild
         /\ trace' = Append(trace, BuildCall("UploadSource", resp, b))
         /\ SetStreams(logf(flags, Streams))
         /\ IF resp # NoFailure
            THEN /\ Return(newCLIError("api_error",
                            <<"failed to upload source">>, 2, CallError(resp)))
                 /\ UNCHANGED <<build, commit>>
            ELSE /\ commit' = c
                 /\ build' = b
                 /\ IF flags.localBuild
                    THEN IF b.isNil \/ b.BuildID = ""
                         THEN Return(newCLIError("local_build_unsupported",
                                MsgLocalUnsupported,
                                2, <<>>))
                         ELSE Goto("install")
                    ELSE Goto("remote")
    /\ UNCHANGED <<flags, proj, elapsed, waitResult, published, previewURL,
                   productionURL, defers, response, report, exitCode,
                   observed, pure>>

(* the build step is attempted even after the install step failed *)
RunInstallThenBuild ==
    /\ pc = "install"
    /\ LET install == localCommands(local).install
       IN IF install = ""
          THEN Goto("buildstep") /\ UNCHANGED <<trace, stdout, stderr, ran>>
          ELSE \E ok \in BOOLEAN :
                 /\ trace' = Append(trace,
                                Call("ShellInstall", ShellExit(ok), ""))
                 /\ ran' = Append(ran, [step |-> "install",
                                        command |-> install, ok |-> ok])
                 /\ SetStreams(runShell(flags, logf(flags, Streams)))
                 /\ Goto("buildstep")
    /\ UNCHANGED <<flags, proj, build, commit, elapsed, waitResult, published,
                   previewURL, productionURL, defers, response, report,
                   exitCode, observed, tree, zip, name, nameErr, local,
                   artifactDir, args, login, config>>

\* runLocalBuild: the install step (skipped when no command resolves)
RunInstall ==
    /\ pc = "install"
    /\ LET install == localCommands(local).install
       IN IF install = ""
          THEN Goto("buildstep") /\ UNCHANGED <<trace, stdout, stderr, ran>>
          ELSE \E ok \in BOOLEAN :
                 /\ trace' = Append(trace,
                                Call("ShellInstall", ShellExit(ok), ""))
                 /\ ran' = Append(ran, [step |-> "install",
                                        command |-> install, ok |-> ok])
                 /\ SetStreams(runShell(flags, logf(flags, Streams)))
                 /\ IF ~ok
                    THEN Return(newCLIError("build_failed",
                           <<"local build failed">>, 3,
                           <<"install failed: ", "exit status 1">>))
                    ELSE Goto("buildstep")
    /\ UNCHANGED <<flags, proj, build, commit, elapsed, waitResult, published,
                   previewURL, productionURL, defers, response, report,
                   exitCode, observed, tree, zip, name, nameErr, local,
                   artifactDir, args, login, config>>

\* runLocalBuild: the build step (skipped when no command resolves)
RunBuild ==
    /\ pc = "buildstep"
    /\ LET buildc == localCommands(local).build
       IN IF buildc = ""
          THEN Goto("artifacts") /\ UNCHANGED <<trace, stdout, stderr, ran>>
          ELSE \E ok \in BOOLEAN :
                 /\ trace' = Append(trace,
                                Call("ShellBuild", ShellExit(ok), ""))
                 /\ ran' = Append(ran, [step |-> "build",
                                        command |-> buildc, ok |-> ok])
                 /\ SetStreams(runShell(flags, logf(flags, Streams)))
                 /\ IF ~ok
                    THEN Return(newCLIError("build_failed",
                           <<"local build failed">>, 3,
                           <<"build failed", ": ", "exit status 1">>))
                    ELSE Goto("artifacts")
    /\ UNCHANGED <<flags, proj, build, commit, elapsed, waitResult, published,
                   previewURL, productionURL, defers, response, report,
                   exitCode, observed, tree, zip, name, nameErr, local,
                   artifactDir, args, login, config>>

(* the artifact bundle is packaged, and no removal is deferred for it *)
PackageArtifactsNoDefer ==
    /\ pc = "artifacts"
    /\ artifactDir' = artifactDirOf(local)
    /\ \E isDir \in BOOLEAN, outcome \in {"ok", "create_failed", "walk_failed"} :
         CASE ~isDir ->
                /\ Return(newCLIError("build_failed",
                      <<"output directory missing: ", "/abs/", artifactDirOf(local)>>, 3, <<>>))
                /\ UNCHANGED <<stdout, stderr>>
           [] isDir /\ outcome = "create_failed" ->
                /\ Return(newCLIError("build_failed",
                      <<"failed to package build output">>, 3,
                      <<"open /tmp/robotx-artifacts.zip: no space left">>))
                /\ SetStreams(logf(flags, Streams))
           [] isDir /\ outcome = "walk_failed" ->
                /\ ReturnWith(newCLIError("build_failed",
                      <<"failed to package build output">>, 3,
                      <<"walk error">>),
                      [bundles EXCEPT !.artifact = "removed"])
                /\ SetStreams(logf(flags, Streams))
           [] OTHER ->
                /\ bundles' = [bundles EXCEPT !.artifact = "exists"]
                /\ SetStreams(logf(flags, logf(flags, Streams)))
                /\ pc' = "artifact_upload"
                /\ UNCHANGED err
    /\ UNCHANGED <<flags, proj, build, commit, elapsed, waitResult, published,
                   previewURL, productionURL, defers, response, report,
                   exitCode, trace, observed, tree, zip, name,
                   nameErr, local, ran, args, login, config>>

\* runDeploy: stat the output directory, packageDirectory and the deferred
\* os.Remove(artifactZip)
PackageArtifacts ==
    /\ pc = "artifacts"
    /\ artifactDir' = artifactDirOf(local)
    /\ \E isDir \in BOOLEAN, outcome \in {"ok", "create_failed", "walk_failed"} :
         CASE ~isDir ->
                /\ Return(newCLIError("build_failed",
                      <<"output directory missing: ", "/abs/", artifactDirOf(local)>>, 3, <<>>))
                /\ UNCHANGED <<defers, stdout, stderr>>
           [] isDir /\ outcome = "create_failed" ->
                /\ Return(newCLIError("build_failed",
                      <<"failed to package build output">>, 3,
                      <<"open /tmp/robotx-artifacts.zip: no space left">>))
                /\ SetStreams(logf(flags, Streams))
                /\ UNCHANGED defers
           [] isDir /\ outcome = "walk_failed" ->
                /\ ReturnWith(newCLIError("build_failed",
                      <<"failed to package build output">>, 3,
                      <<"walk error">>),
                      [bundles EXCEPT !.artifact = "removed"])
                /\ SetStreams(logf(flags, Streams))
                /\ UNCHANGED defers
           [] OTHER ->
                /\ bundles' = [bundles EXCEPT !.artifact = "exists"]
                /\ defers' = defers \cup {"artifact"}
                /\ SetStreams(logf(flags, logf(flags, Streams)))
                /\ pc' = "artifact_upload"
                /\ UNCHANGED err
    /\ UNCHANGED <<flags, proj, build, commit, elapsed, waitResult, published,
                   previewURL, productionURL, response, report, exitCode,
                   trace, observed, tree, zip, name,
                   nameErr, local, ran, args, login, config>>

\* runDeploy: c.UploadBuildArtifacts replaces `build`
UploadBuildArtifacts ==
    /\ pc = "artifact_upload"
    /\ \E resp \in BackendOutcomes, b \in ArtifactBuilds :
         /\ trace' = Append(trace,
                        OnBuild(BuildCall("UploadBuildArtifacts", resp, b),
                                build.BuildID))
         /\ IF resp # NoFailure
            THEN /\ Return(newCLIError("api_error",
                     <<"failed to upload build artifacts">>, 2,
                     CallError(resp)))
                 /\ build' = NilBuild
                 /\ SetStreams(logf(flags, Streams))
            ELSE /\ build' = b
                 /\ SetStreams(logf(flags, logf(flags, Streams)))
                 /\ Goto("await")
    /\ UNCHANGED <<flags, proj, commit, elapsed, waitResult, published,
                   previewURL, productionURL, defers, response, report,
                   exitCode, observed, pure>>

(* TriggerBuild whatever the upload returned *)
TriggerBuildAlways ==
    /\ pc = "remote"
    /\ IF commit = ""
       THEN /\ Return(newCLIError("build_failed",
                 <<"no commit ID available to trigger build">>, 3, <<>>))
            /\ SetStreams(logf(flags, Streams))
            /\ UNCHANGED <<build, trace>>
       ELSE \E resp \in BackendOutcomes, b \in TriggerBuilds :
              /\ trace' = Append(trace, BuildCall("TriggerBuild", resp, b))
              /\ IF resp # NoFailure
                 THEN /\ Return(newCLIError("api_error",
                           <<"failed to trigger build">>, 2, CallError(resp)))
                      /\ build' = NilBuild
                      /\ SetStreams(logf(flags, Streams))
                 ELSE /\ build' = b
                      /\ SetStreams(logf(flags, logf(flags, Streams)))
                      /\ Goto("await")
    /\ UNCHANGED <<flags, proj, commit, elapsed, waitResult, published,
                   previewURL, productionURL, defers, response, report,
                   exitCode, observed, pure>>

(* TriggerBuild is called even with an empty commit id *)
TriggerBuildNoCommit ==
    /\ pc = "remote"
    /\ build.isNil \/ build.BuildID = ""
    /\ \E resp \in BackendOutcomes, b \in TriggerBuilds :
         /\ trace' = Append(trace, BuildCall("TriggerBuild", resp, b))
         /\ IF resp # NoFailure
            THEN /\ Return(newCLIError("api_error",
                      <<"failed to trigger build">>, 2, CallError(resp)))
                 /\ build' = NilBuild
                 /\ SetStreams(logf(flags, Streams))
            ELSE /\ build' = b
                 /\ SetStreams(logf(flags, logf(flags, Streams)))
                 /\ Goto("await")
    /\ UNCHANGED <<flags, proj, commit, elapsed, waitResult, published,
                   previewURL, productionURL, defers, response, report,
                   exitCode, observed, pure>>

\* runDeploy, remote branch: c.TriggerBuild when upload gave no build id
TriggerBuild ==
    /\ pc = "remote"
    /\ build.isNil \/ build.BuildID = ""
    /\ IF commit = ""
       THEN /\ Return(newCLIError("build_failed",
                 <<"no commit ID available to trigger build">>, 3, <<>>))
            /\ SetStreams(logf(flags, Streams))
            /\ UNCHANGED <<build, trace>>
       ELSE \E resp \in BackendOutcomes, b \in TriggerBuilds :
              /\ trace' = Append(trace, BuildCall("TriggerBuild", resp, b))
              /\ IF resp # NoFailure
                 THEN /\ Return(newCLIError("api_error",
                           <<"failed to trigger build">>, 2, CallError(resp)))
                      /\ build' = NilBuild
                      /\ SetStreams(logf(flags, Streams))
                 ELSE /\ build' = b
                      /\ SetStreams(logf(flags, logf(flags, Streams)))
                      /\ Goto("await")
    /\ UNCHANGED <<flags, proj, commit, elapsed, waitResult, published,
                   previewURL, productionURL, defers, response, report,
                   exitCode, observed, pure>>

\* runDeploy, remote branch: c.StartBuild on the build upload created
StartBuild ==
    /\ pc = "remote"
    /\ ~(build.isNil \/ build.BuildID = "")
    /\ \E resp \in BackendOutcomes :
         /\ trace' = Append(trace, OnBuild(Call("StartBuild", resp, ""),
                                           build.BuildID))
         /\ IF resp # NoFailure
            THEN /\ Return(newCLIError("api_error",
                      <<"failed to start build">>, 2, CallError(resp)))
                 /\ SetStreams(logf(flags, Streams))
            ELSE /\ SetStreams(logf(flags, logf(flags, Streams)))
                 /\ Goto("await")
    /\ UNCHANGED <<flags, proj, build, commit, elapsed, waitResult, published,
                   previewURL, productionURL, defers, response, report,
                   exitCode, observed, pure>>

(* what runDeploy does with a build it holds as successful: narrate it, *)
(* resolve the preview URL, and narrate the URL if there is one        *)
Completed(b) ==
    LET url == resolvePreviewURL(BaseURL, proj, b) IN
    /\ previewURL' = url
    /\ SetStreams(IF url # <<>> THEN logf(flags, logf(flags, Streams))
                  ELSE logf(flags, Streams))

(* the wait block entered whether or not --wait was given *)
AwaitCompletionAlways ==
    /\ pc = "await"
    /\ IF build.isNil \/ build.BuildID = ""
       THEN /\ Return(newCLIError("build_failed",
                 <<"no build ID available to wait for completion">>, 3, <<>>))
            /\ UNCHANGED <<elapsed, previewURL, stdout, stderr>>
       ELSE /\ pc' = "wf_check"
            /\ elapsed' = 0
            /\ SetStreams(logf(flags, Streams))
            /\ UNCHANGED <<err, bundles, previewURL>>
    /\ UNCHANGED <<flags, proj, build, commit, waitResult, published,
                   productionURL, defers, response, report, exitCode, trace,
                   observed, pure>>

(* a build without an id is not waited for: the wait block is passed over *)
AwaitCompletionSkipNoId ==
    /\ pc = "await"
    /\ IF ~flags.wait
       THEN /\ Goto("publish")
            /\ IF ~build.isNil /\ build.Status = "success"
               THEN Completed(build)
               ELSE UNCHANGED <<previewURL, stdout, stderr>>
            /\ UNCHANGED elapsed
       ELSE IF build.isNil \/ build.BuildID = ""
       THEN /\ Goto("publish")
            /\ UNCHANGED <<elapsed, previewURL, stdout, stderr>>
       ELSE /\ pc' = "wf_check"
            /\ elapsed' = 0
            /\ SetStreams(logf(flags, Streams))
            /\ UNCHANGED <<err, bundles, previewURL>>
    /\ UNCHANGED <<flags, proj, build, commit, waitResult, published,
                   productionURL, defers, response, report, exitCode, trace,
                   observed, pure>>

\* runDeploy: `if wait { ... }` up to the call of waitForBuild (start := now),
\* or the `else if` on a build that is already successful
AwaitCompletion ==
    /\ pc = "await"
    /\ IF ~flags.wait
       THEN /\ Goto("publish")
            /\ IF ~build.isNil /\ build.Status = "success"
               THEN Completed(build)
               ELSE UNCHANGED <<previewURL, stdout, stderr>>
            /\ UNCHANGED elapsed
       ELSE IF build.isNil \/ build.BuildID = ""
       THEN /\ Return(newCLIError("build_failed",
                 <<"no build ID available to wait for completion">>, 3, <<>>))
            /\ UNCHANGED <<elapsed, previewURL, stdout, stderr>>
       ELSE /\ pc' = "wf_check"
            /\ elapsed' = 0
            /\ SetStreams(logf(flags, Streams))
            /\ UNCHANGED <<err, bundles, previewURL>>
    /\ UNCHANGED <<flags, proj, build, commit, waitResult, published,
                   productionURL, defers, response, report, exitCode, trace,
                   observed, pure>>

TimedOut(since, timeoutSec) == since > timeoutSec * Second

\* waitForBuild: the elapsed-time check at the top of the loop
CheckTimeout ==
    /\ pc = "wf_check"
    /\ \E d \in StmtDelays :
         /\ elapsed' = elapsed + d
         /\ IF TimedOut(elapsed + d, flags.timeout)
            THEN /\ waitResult' = "timeout"
                 /\ build' = NilBuild
                 /\ Return(newCLIError("build_failed", <<"build failed">>, 3,
                      <<"build timeout", " after ",
                        SecondsText(flags.timeout), " seconds">>))
            ELSE /\ Goto("wf_get")
                 /\ UNCHANGED <<waitResult, build>>
    /\ UNCHANGED <<flags, proj, commit, published, previewURL, productionURL,
                   defers, stdout, stderr, response, report, exitCode, trace,
                   observed, pure>>

(* the switch with "failed" moved to the keep-polling case *)
PollOutcomeFailedRetried(status) ==
    CASE status = "success" -> "return"
      [] status \in {"queued", "running", "failed"} -> "sleep"
      [] OTHER -> "unknown"

(* the switch with the default case merged into the keep-polling case *)
PollOutcomeUnknownRetried(status) ==
    CASE status \in {"success", "failed"} -> "return"
      [] OTHER -> "sleep"

\* waitForBuild: the switch on build.Status
PollOutcome(status) ==
    CASE status \in {"success", "failed"} -> "return"
      [] status \in {"queued", "running"} -> "sleep"
      [] OTHER -> "unknown"

\* waitForBuild: c.GetBuild and the switch; runDeploy's branch on the result
\* (`start` goes out of scope when waitForBuild returns: elapsed is cleared)
GetBuild ==
    /\ pc = "wf_get"
    /\ \E lat \in GetLatencies, resp \in BackendOutcomes,
          id \in GetBuildIDs, status \in Statuses, path \in PreviewPaths :
         /\ path # "" => (resp = NoFailure /\ status = "success")
         /\ elapsed' = IF resp = NoFailure /\ PollOutcome(status) = "sleep"
                       THEN elapsed + lat
                       ELSE 0
         /\ IF resp # NoFailure
            THEN /\ trace' = Append(trace, OnBuild(Call("GetBuild", resp, ""),
                                                build.BuildID))
                 /\ waitResult' = "error"
                 /\ build' = NilBuild
                 /\ Return(newCLIError("build_failed", <<"build failed">>, 3,
                                       CallError(resp)))
                 /\ UNCHANGED <<previewURL, stdout, stderr>>
            ELSE /\ trace' = Append(trace,
                        OnBuild(BuildCall("GetBuild", resp,
                                    WithPreview(Build(id, status), path)),
                                build.BuildID))
                 /\ CASE PollOutcome(status) = "return" ->
                           /\ waitResult' = "terminal"
                           /\ build' = WithPreview(Build(id, status), path)
                           /\ IF status = "success"
                              THEN /\ Completed(WithPreview(Build(id, status),
                                                            path))
                                   /\ Goto("publish")
                              ELSE /\ Goto("logs")
                                   /\ UNCHANGED <<previewURL, stdout, stderr>>
                      [] PollOutcome(status) = "sleep" ->
                           /\ id = "b1"
                           /\ SetStreams(logf(flags, Streams))
                           /\ Goto("wf_sleep")
                           /\ UNCHANGED <<waitResult, build, previewURL>>
                      [] OTHER ->
                           /\ id = "b1"
                           /\ waitResult' = "unknown"
                           /\ build' = NilBuild
                           /\ Return(newCLIError("build_failed",
                                <<"build failed">>, 3,
                                <<"unknown build status", ": ", status>>))
                           /\ UNCHANGED <<previewURL, stdout, stderr>>
    /\ UNCHANGED <<flags, proj, commit, published, productionURL, defers,
                   response, report, exitCode, observed, pure>>

(* the sleep between two polls never hands control back to the loop *)
SleepForever ==
    /\ pc = "wf_sleep"
    /\ pc' = "wf_sleep"
    /\ UNCHANGED <<flags, proj, build, commit, elapsed, waitResult, published,
                   previewURL, productionURL, bundles, defers, err, stdout,
                   stderr, response, report, exitCode, trace, observed, pure>>

\* waitForBuild: time.Sleep(5 * time.Second)
Sleep ==
    /\ pc = "wf_sleep"
    /\ elapsed' = elapsed + PollInterval
    /\ Goto("wf_check")
    /\ UNCHANGED <<flags, proj, build, commit, waitResult, published,
                   previewURL, productionURL, defers, stdout, stderr,
                   response, report, exitCode, trace, observed, pure>>

(* a failed GetBuildLogs call reported as the failure of the invocation *)
GetBuildLogsFatal ==
    /\ pc = "logs"
    /\ \E resp \in BackendOutcomes :
         /\ trace' = Append(trace, OnBuild(Call("GetBuildLogs", resp, ""),
                                           build.BuildID))
         /\ SetStreams(IF resp = NoFailure
                       THEN logf(flags, logf(flags, Streams))
                       ELSE logf(flags, Streams))
         /\ IF resp = NoFailure
            THEN Return(newCLIError("build_failed",
                   <<"build failed", " with status: ", build.Status>>, 3,
                   <<>>))
            ELSE Return(newCLIError("api_error",
                   <<"failed to fetch build logs">>, 2, CallError(resp)))
    /\ UNCHANGED <<flags, proj, build, commit, elapsed, waitResult, published,
                   previewURL, productionURL, defers, response, report,
                   exitCode, observed, pure>>

\* runDeploy: non-success terminal status: fetch the logs, then fail
GetBuildLogs ==
    /\ pc = "logs"
    /\ \E resp \in BackendOutcomes :
         /\ trace' = Append(trace, OnBuild(Call("GetBuildLogs", resp, ""),
                                           build.BuildID))
         /\ SetStreams(IF resp = NoFailure
                       THEN logf(flags, logf(flags, Streams))
                       ELSE logf(flags, Streams))
    /\ Return(newCLIError("build_failed",
              <<"build failed", " with status: ", build.Status>>, 3, <<>>))
    /\ UNCHANGED <<flags, proj, build, commit, elapsed, waitResult, published,
                   previewURL, productionURL, defers, response, report,
                   exitCode, observed, pure>>

(* publishing whatever the status of the build *)
ShouldPublishAnyStatus == flags.publish /\ ~build.isNil

ShouldPublish == flags.publish /\ ~build.isNil /\ build.Status = "success"

(* PublishBuild placed ahead of the wait: polling resumes after it *)
PublishBuildThenPoll ==
    /\ pc = "publish"
    /\ ShouldPublish
    /\ \E resp \in BackendOutcomes, publicPath \in PublicPaths :
         /\ publicPath # "" => resp = NoFailure
         /\ trace' = Append(trace,
                        OnBuild(PathCall("PublishBuild", resp, publicPath),
                                build.BuildID))
         /\ IF resp # NoFailure
            THEN /\ Return(newCLIError("publish_failed",
                      <<"failed to publish">>, 4, CallError(resp)))
                 /\ SetStreams(logf(flags, Streams))
                 /\ UNCHANGED <<published, productionURL>>
            ELSE /\ published' = TRUE
                 /\ productionURL' =
                      IF TrimSpace(publicPath) # ""
                      THEN <<TrimSpace(publicPath)>>
                      ELSE resolvePublishURL(BaseURL, proj)
                 /\ SetStreams(logf(flags, logf(flags, Streams)))
                 /\ Goto(IF flags.wait THEN "wf_get" ELSE "emit")
    /\ UNCHANGED <<flags, proj, build, commit, elapsed, waitResult,
                   previewURL, defers, response, report, exitCode, observed,
                   pure>>

\* runDeploy: c.PublishBuild when requested and the build succeeded
PublishBuild ==
    /\ pc = "publish"
    /\ ShouldPublish
    /\ \E resp \in BackendOutcomes, publicPath \in PublicPaths :
         /\ publicPath # "" => resp = NoFailure
         /\ trace' = Append(trace,
                        OnBuild(PathCall("PublishBuild", resp, publicPath),
                                build.BuildID))
         /\ IF resp # NoFailure
            THEN /\ Return(newCLIError("publish_failed",
                      <<"failed to publish">>, 4, CallError(resp)))
                 /\ SetStreams(logf(flags, Streams))
                 /\ UNCHANGED <<published, productionURL>>
            ELSE /\ published' = TRUE
                 /\ productionURL' =
                      IF TrimSpace(publicPath) # ""
                      THEN <<TrimSpace(publicPath)>>
                      ELSE resolvePublishURL(BaseURL, proj)
                 /\ SetStreams(logf(flags, logf(flags, Streams)))
                 /\ Goto("emit")
    /\ UNCHANGED <<flags, proj, build, commit, elapsed, waitResult,
                   previewURL, defers, response, report, exitCode, observed,
                   pure>>

\* runDeploy: the publish block is skipped
SkipPublish ==
    /\ pc = "publish"
    /\ ~ShouldPublish
    /\ Goto("emit")
    /\ UNCHANGED <<flags, proj, build, commit, elapsed, waitResult, published,
                   previewURL, productionURL, defers, stdout, stderr,
                   response, report, exitCode, trace, observed, pure>>

(* the payload of the success envelope, given the two URLs *)
deployResponse(preview, production) ==
    [success |-> TRUE, command |-> "deploy",
     ProjectID |-> proj.ProjectID,
     BuildID |-> build.BuildID,
     BuildStatus |-> build.Status,
     PreviewURL |-> preview,
     ProductionURL |-> production,
     Published |-> flags.publish /\ production # <<>>,
     Waited |-> flags.wait,
     LocalBuild |-> flags.localBuild]

\* runDeploy: the URL fallbacks, emitSuccess, then `return nil`
EmitSuccess ==
    /\ pc = "emit"
    /\ LET succeeded == ~build.isNil /\ build.Status = "success"
           preview == IF previewURL = <<>> /\ succeeded
                      THEN resolvePreviewURL(BaseURL, proj, build)
                      ELSE previewURL
           production == IF productionURL = <<>> /\ flags.publish /\ succeeded
                         THEN resolvePublishURL(BaseURL, proj)
                         ELSE productionURL
       IN  /\ previewURL' = preview
           /\ productionURL' = production
           /\ IF ~isJSONOutput(flags)
              THEN Return(NoErr) /\ UNCHANGED <<stdout, stderr, response>>
              ELSE \E ok \in BOOLEAN :
                     IF ok
                     THEN /\ SetStreams(WriteTo(Streams, "stdout", "envelope"))
                          /\ response' = deployResponse(preview, production)
                          /\ Return(NoErr)
                     ELSE /\ Return(newCLIError("output_error",
                               <<"failed to render JSON output">>, 1,
                               <<"write /dev/stdout: broken pipe">>))
                          /\ UNCHANGED <<stdout, stderr, response>>
    /\ UNCHANGED <<flags, proj, build, commit, elapsed, waitResult, published,
                   defers, report, exitCode, trace, observed, pure>>

(* Which of the poll-loop failures ended the invocation, if any *)
Cause ==
    CASE waitResult = "timeout" -> "timeout"
      [] waitResult = "unknown" -> "unknown_status"
      [] waitResult = "terminal" /\ build.Status = "failed" -> "backend_failed"
      [] OTHER -> "other"

\* main: os.Exit(cmd.HandleError(err)) or fall off the end with status 0
Exit ==
    /\ pc = "returned"
    /\ pc' = "exited"
    /\ IF err.kind = "nil"
       THEN exitCode' = 0 /\ UNCHANGED <<report, observed, stdout, stderr>>
       ELSE LET h == HandleError(err, flags) IN
            /\ exitCode' = h.exit
            /\ report' = h.report
            /\ SetStreams(WriteTo(Streams, "stderr",
                            IF h.report.mode = "json" THEN "error_envelope"
                            ELSE "error_line"))
            /\ observed' =
                 IF Cause # "other"
                 THEN observed \cup {<<Cause, h.exit, h.report.message>>}
                 ELSE observed
    /\ UNCHANGED <<flags, proj, build, commit, elapsed, waitResult, published,
                   previewURL, productionURL, bundles, defers, err, response,
                   trace, pure>>

\* the caller runs the same command line again: a new process, nothing
\* carried over from the previous one
NextInvocation ==
    /\ pc = "exited"
    /\ pc' = "start"
    /\ proj' = NilProject
    /\ build' = NilBuild
    /\ commit' = ""
    /\ elapsed' = 0
    /\ waitResult' = "none"
    /\ published' = FALSE
    /\ previewURL' = <<>>
    /\ productionURL' = <<>>
    /\ bundles' = NoBundles
    /\ defers' = {}
    /\ err' = NoErr
    /\ stdout' = <<>>
    /\ stderr' = <<>>
    /\ response' = NoResponse
    /\ report' = NoReport
    /\ exitCode' = -1
    /\ trace' = <<>>
    /\ ran' = <<>>
    /\ artifactDir' = ""
    /\ UNCHANGED <<flags, observed, tree, zip, name, nameErr, local, args,
                   login, config>>

Next ==
    \/ Execute
    \/ ResolvePath
    \/ CheckConfig
    \/ ResolveName
    \/ CreateProject
    \/ PackageSource
    \/ UploadSource
    \/ RunInstall
    \/ RunBuild
    \/ PackageArtifacts
    \/ UploadBuildArtifacts
    \/ TriggerBuild
    \/ StartBuild
    \/ AwaitCompletion
    \/ CheckTimeout
    \/ GetBuild
    \/ Sleep
    \/ GetBuildLogs
    \/ PublishBuild
    \/ SkipPublish
    \/ EmitSuccess
    \/ Exit

Spec == Init /\ [][Next]_vars

(* the process keeps running: a step that can be taken is taken; every
   backend call, shell command and sleep returns *)
SpecLive == Spec /\ WF_vars(Next)

NextRuns == Next \/ NextInvocation

(* a caller that asks for JSON and repeats its command line *)
InitRuns ==
    /\ \E f \in FlagSets :
         /\ f.outputJSON /\ f.outputFormat = "text"
         /\ Fresh(f)
    /\ local = NoLocal
    /\ observed = {}
    /\ NoPure

SpecRuns == InitRuns /\ [][NextRuns]_vars

----------------------------------------------------------------------------
(* The archiver on its own: packageSource over a bounded project tree.    *)
(* A path is a sequence of segments and a segment a sequence of chunks;   *)
(* a denylist name at the start of a segment is a chunk of its own, so    *)
(* <<".git", "ignore">> is the file name ".gitignore".                    *)

MaxTreeFiles == 3

skipDirs == {"node_modules", ".git", ".next", "dist", "build", ".DS_Store",
             "__pycache__", ".venv", "venv"}

(* the regular files a project tree is drawn from, in the lexical order *)
(* in which filepath.Walk visits them                                   *)
CandidateFiles ==
    << << <<".git">>, <<"config">> >>,
       << <<".git", "ignore">> >>,
       << <<"build", "er.go">> >>,
       << <<"dist">>, <<"app.js">> >>,
       << <<"main.go">> >>,
       << <<"node_modules">>, <<"pkg">>, <<"index.js">> >>,
       << <<"src">>, <<".DS_Store">> >>,
       << <<"src">>, <<"dist", "ribution">>, <<"notes.txt">> >>,
       << <<"src">>, <<"my", "dist">> >>,
       << <<"src">>, <<"util.go">> >> >>

(* the files with the given indices, in walk order *)
TreeOf(S) ==
    LET n == Cardinality(S)
        f == CHOOSE g \in [1..n -> S] :
                 \A i \in 1..n : \A j \in 1..n : i < j => g[i] < g[j]
    IN  [i \in 1..n |-> CandidateFiles[f[i]]]

Trees ==
    {TreeOf(S) : S \in {T \in SUBSET (1..Len(CandidateFiles)) :
                            Cardinality(T) <= MaxTreeFiles}}

shouldSkip(path) ==
    \E skip \in skipDirs :
        \/ path[1][1] = skip
        \/ \E i \in 2..Len(path) : path[i][1] = skip

(* the walk reaches a file unless it returned SkipDir for a directory *)
(* above it                                                           *)
Walked(file) ==
    \A d \in 1..(Len(file) - 1) : ~shouldSkip(SubSeq(file, 1, d))

Stored(file) == Walked(file) /\ ~shouldSkip(file)

(* every variable of the deploy invocation at rest *)
Idle(p) ==
    /\ flags = [publish |-> TRUE, wait |-> TRUE, localBuild |-> TRUE,
                timeout |-> MaxTimeout, outputJSON |-> FALSE,
                outputFormat |-> "text"]
    /\ pc = p
    /\ proj = NilProject
    /\ build = NilBuild
    /\ commit = ""
    /\ elapsed = 0
    /\ waitResult = "none"
    /\ published = FALSE
    /\ previewURL = <<>>
    /\ productionURL = <<>>
    /\ bundles = NoBundles
    /\ defers = {}
    /\ err = NoErr
    /\ stdout = <<>>
    /\ stderr = <<>>
    /\ response = NoResponse
    /\ report = NoReport
    /\ exitCode = -1
    /\ trace = <<>>
    /\ observed = {}

InitArchive ==
    /\ Idle("walk")
    /\ tree \in Trees
    /\ zip = <<>>
    /\ name = <<>>
    /\ nameErr = "none"
    /\ local = NoLocal
    /\ ran = <<>>
    /\ artifactDir = ""
    /\ args = NoArgs
    /\ login = NoLogin
    /\ config = NoFile

\* packageSource: the walk that writes one zip entry per file it keeps
packageSource ==
    /\ pc = "walk"
    /\ pc' = "packaged"
    /\ zip' = SelectSeq(tree, Stored)
    /\ UNCHANGED <<flags, proj, build, commit, elapsed, waitResult, published,
                   previewURL, productionURL, bundles, defers, err, stdout,
                   stderr, response, report, exitCode, trace, observed,
                   tree, name, nameErr, local, ran, artifactDir, args,
                   login, config>>

SpecArchive == InitArchive /\ [][packageSource]_vars

----------------------------------------------------------------------------
(* The name check on its own: the derivation in runDeploy and            *)
(* validateProjectName over bounded names.  A name is a sequence of      *)
(* runes, each a one-character string.                                   *)

MaxNameLen == 65

(* the repetition bounds of the middle part of projectNamePattern *)
MinMiddle == 2
MaxMiddle == 61

LowerRunes == {"a", "z"}
DigitRunes == {"0", "9"}
Runes == LowerRunes \cup DigitRunes \cup {"-", "A", " ", "_"}

NameLens == (0..5) \cup ((MaxNameLen - 3)..MaxNameLen)

(* a name of n runes: given first and last runes, and a middle of "a"s *)
(* whose first rune is given too                                       *)
NameOf(n, first, second, last) ==
    [i \in 1..n |-> IF i = n THEN last
                    ELSE IF i = 1 THEN first
                    ELSE IF i = 2 THEN second
                    ELSE "a"]

RawNames ==
    {NameOf(n, c1, c2, c3) : n \in NameLens,
                              c1 \in Runes, c2 \in Runes, c3 \in Runes}

TrimSpaceRunes(s) ==
    LET kept == {i \in 1..Len(s) : s[i] # " "} IN
    IF kept = {} THEN <<>>
    ELSE SubSeq(s, CHOOSE i \in kept : \A j \in kept : i <= j,
                   CHOOSE i \in kept : \A j \in kept : j <= i)

ToLowerRunes(s) == [i \in 1..Len(s) |-> IF s[i] = "A" THEN "a" ELSE s[i]]

(* [a-z0-9] and [a-z0-9-] *)
EdgeClass(c) == c \in LowerRunes \cup DigitRunes
MiddleClass(c) == EdgeClass(c) \/ c = "-"

(* the pattern with a middle part of 1 to 61 runes *)
projectNamePatternShort(s) ==
    \E k \in 1..MaxMiddle :
        /\ Len(s) = k + 2
        /\ EdgeClass(s[1])
        /\ \A i \in 2..(k + 1) : MiddleClass(s[i])
        /\ EdgeClass(s[k + 2])

(* ^[a-z0-9][a-z0-9-]{2,61}[a-z0-9]$ *)
projectNamePattern(s) ==
    \E k \in MinMiddle..MaxMiddle :
        /\ Len(s) = k + 2
        /\ EdgeClass(s[1])
        /\ \A i \in 2..(k + 1) : MiddleClass(s[i])
        /\ EdgeClass(s[k + 2])

validateProjectName(n) ==
    LET trimmed == TrimSpaceRunes(n) IN
    IF trimmed = <<>> THEN "required"
    ELSE IF ~projectNamePattern(trimmed) THEN "pattern"
    ELSE "nil"

InitName ==
    /\ Idle("derive")
    /\ tree = <<>>
    /\ zip = <<>>
    /\ name \in RawNames
    /\ nameErr = "none"
    /\ local = NoLocal
    /\ ran = <<>>
    /\ artifactDir = ""
    /\ args = NoArgs
    /\ login = NoLogin
    /\ config = NoFile

\* runDeploy: usedProjectName is the trimmed, lower-cased name, which
\* validateProjectName then checks
deriveAndValidate ==
    /\ pc = "derive"
    /\ pc' = "validated"
    /\ name' = ToLowerRunes(TrimSpaceRunes(name))
    /\ nameErr' = validateProjectName(ToLowerRunes(TrimSpaceRunes(name)))
    /\ UNCHANGED <<flags, proj, build, commit, elapsed, waitResult, published,
                   previewURL, productionURL, bundles, defers, err, stdout,
                   stderr, response, report, exitCode, trace, observed,
                   tree, zip, local, ran, artifactDir, args, login,
                   config>>

SpecName == InitName /\ [][deriveAndValidate]_vars

-----------------------------------------------------------------------------
(* The local-build branch of runDeploy over all overrides and plans *)

(* runDeploy at line 161 of a --local-build invocation: the project was
   created, the source bundle uploaded, the upload returned a build id *)
InitLocalBuild ==
    /\ flags = [publish |-> FALSE, wait |-> FALSE, localBuild |-> TRUE,
                timeout |-> MaxTimeout, outputJSON |-> FALSE,
                outputFormat |-> "text"]
    /\ pc = "install"
    /\ proj = Project("proj_1", "", "", "", "")
    /\ build = Build("b1", "queued")
    /\ commit = "c1"
    /\ elapsed = 0
    /\ waitResult = "none"
    /\ published = FALSE
    /\ previewURL = <<>>
    /\ productionURL = <<>>
    /\ bundles = [source |-> "exists", artifact |-> "none"]
    /\ defers = {"source"}
    /\ err = NoErr
    /\ stdout = <<"narration", "narration", "narration", "narration",
                  "narration">>
    /\ stderr = <<>>
    /\ response = NoResponse
    /\ report = NoReport
    /\ exitCode = -1
    /\ trace = <<Call("CreateProject", NoFailure, ""),
                 BuildCall("UploadSource", NoFailure, Build("b1", "queued"))>>
    /\ observed = {}
    /\ local \in LocalInputs
    /\ NoPure

NextLocalBuild ==
    \/ RunInstall
    \/ RunBuild
    \/ PackageArtifacts
    \/ UploadBuildArtifacts
    \/ Exit

SpecLocalBuild == InitLocalBuild /\ [][NextLocalBuild]_vars

-----------------------------------------------------------------------------
(* The publish and status commands: the URLs they report *)

ProjectIDs == {"", "proj_1"}
BuildIDs == {"", "b1"}

(* robotx publish --project-id P --build-id B: cobra requires the two flags
   to be given, not their values to be non-empty;
   robotx status [--project-id P] [--build-id B] [--logs] *)
CommandLines ==
    {[command |-> "publish", projectID |-> p, buildID |-> "b1",
      logs |-> FALSE] : p \in ProjectIDs}
    \cup
    {[command |-> "status", projectID |-> p, buildID |-> b, logs |-> l] :
        p \in ProjectIDs, b \in BuildIDs, l \in BOOLEAN}

InitCommands ==
    /\ \E f \in FlagSets :
         /\ f.publish /\ f.wait /\ f.localBuild /\ f.timeout = MaxTimeout
         /\ Fresh(f)
    /\ observed = {}
    /\ local = NoLocal
    /\ tree = <<>>
    /\ zip = <<>>
    /\ name = <<>>
    /\ nameErr = "none"
    /\ ran = <<>>
    /\ artifactDir = ""
    /\ args \in CommandLines
    /\ login = NoLogin
    /\ config = NoFile

(* emitSuccess of a command other than deploy, after the output `out` *)
emitEnvelope(out, payload) ==
    IF ~isJSONOutput(flags)
    THEN Return(NoErr) /\ SetStreams(out) /\ UNCHANGED response
    ELSE \E ok \in BOOLEAN :
           IF ok
           THEN /\ SetStreams(WriteTo(out, "stdout", "envelope"))
                /\ response' = payload
                /\ Return(NoErr)
           ELSE /\ Return(newCLIError("output_error",
                     <<"failed to render JSON output">>, 1,
                     <<"write /dev/stdout: broken pipe">>))
                /\ SetStreams(out)
                /\ UNCHANGED response

\* runPublish: the configuration checks and c.PublishBuild
PublishCommand ==
    /\ pc = "start"
    /\ args.command = "publish"
    /\ \E baseURL \in {"", BaseURL}, apiKey \in {"", "key"} :
         IF baseURL = ""
         THEN /\ Return(newCLIError("missing_base_url",
                   <<"base URL is required">>, 1, <<>>))
              /\ UNCHANGED <<trace, productionURL, published, stdout, stderr>>
         ELSE IF apiKey = ""
         THEN /\ Return(newCLIError("missing_api_key",
                   <<"API key is required">>, 1, <<>>))
              /\ UNCHANGED <<trace, productionURL, published, stdout, stderr>>
         ELSE \E resp \in BackendOutcomes, publicPath \in PublicPaths :
                /\ trace' = Append(trace,
                               OnBuild(PathCall("PublishBuild", resp,
                                                publicPath), args.buildID))
                /\ IF resp # NoFailure
                   THEN /\ Return(newCLIError("publish_failed",
                             <<"failed to publish">>, 4, CallError(resp)))
                        /\ SetStreams(logf(flags, Streams))
                        /\ UNCHANGED <<productionURL, published>>
                   ELSE /\ published' = TRUE
                        /\ productionURL' =
                             IF TrimSpace(publicPath) = "" THEN <<>>
                             ELSE <<TrimSpace(publicPath)>>
                        /\ SetStreams(logf(flags, logf(flags, Streams)))
                        /\ Goto("publish_url")
    /\ UNCHANGED <<flags, proj, build, commit, elapsed, waitResult, previewURL,
                   defers, response, report, exitCode, observed, pure>>

\* runPublish: the production URL (the publish result, else the project's
\* URL through c.GetProject, else {base}/{project id}) and the envelope
PublishURL ==
    /\ pc = "publish_url"
    /\ IF productionURL # <<>>
       THEN /\ UNCHANGED <<trace, proj, productionURL>>
            /\ emitEnvelope(logf(flags, Streams),
                            [success |-> TRUE, command |-> "publish",
                             ProjectID |-> args.projectID,
                             BuildID |-> args.buildID,
                             ProductionURL |-> productionURL])
       ELSE \E resp \in BackendOutcomes, project \in Projects :
              LET fromProject == IF resp = NoFailure
                                 THEN resolvePublishURL(BaseURL, project)
                                 ELSE <<>>
                  prodURL == IF fromProject # <<>> THEN fromProject
                             ELSE <<BaseURL, "/", args.projectID>>
              IN /\ (resp # NoFailure => project = NilProject)
                 /\ trace' = Append(trace, Call("GetProject", resp, ""))
                 /\ proj' = project
                 /\ productionURL' = prodURL
                 /\ emitEnvelope(logf(flags, Streams),
                                 [success |-> TRUE, command |-> "publish",
                                  ProjectID |-> args.projectID,
                                  BuildID |-> args.buildID,
                                  ProductionURL |-> prodURL])
    /\ UNCHANGED <<flags, build, commit, elapsed, waitResult, published,
                   previewURL, defers, report, exitCode, observed, pure>>

\* runStatus: the argument and configuration checks, and c.GetProject when
\* --project-id was given
StatusProject ==
    /\ pc = "start"
    /\ args.command = "status"
    /\ IF args.projectID = "" /\ args.buildID = ""
       THEN /\ Return(newCLIError("missing_argument",
                 <<"at least one of --project-id or --build-id is required">>,
                 1, <<>>))
            /\ UNCHANGED <<trace, proj, stdout, stderr>>
       ELSE IF args.logs /\ args.buildID = ""
       THEN /\ Return(newCLIError("missing_argument",
                 <<"--logs requires --build-id">>, 1, <<>>))
            /\ UNCHANGED <<trace, proj, stdout, stderr>>
       ELSE \E baseURL \in {"", BaseURL}, apiKey \in {"", "key"} :
              IF baseURL = ""
              THEN /\ Return(newCLIError("missing_base_url",
                        <<"base URL is required">>, 1, <<>>))
                   /\ UNCHANGED <<trace, proj, stdout, stderr>>
              ELSE IF apiKey = ""
              THEN /\ Return(newCLIError("missing_api_key",
                        <<"API key is required">>, 1, <<>>))
                   /\ UNCHANGED <<trace, proj, stdout, stderr>>
              ELSE IF args.projectID = ""
              THEN /\ Goto("status_build")
                   /\ UNCHANGED <<trace, proj, stdout, stderr>>
              ELSE \E resp \in BackendOutcomes, project \in Projects :
                     /\ (resp # NoFailure => project = NilProject)
                     /\ trace' = Append(trace, Call("GetProject", resp, ""))
                     /\ SetStreams(logf(flags, Streams))
                     /\ IF resp # NoFailure
                        THEN /\ Return(newCLIError("api_error",
                                  <<"failed to get project">>, 2,
                                  CallError(resp)))
                             /\ UNCHANGED proj
                        ELSE /\ proj' = project
                             /\ Goto("status_build")
    /\ UNCHANGED <<flags, build, commit, elapsed, waitResult, published,
                   previewURL, productionURL, defers, response, report,
                   exitCode, observed, pure>>

(* runStatus: the urls of the response, given whether a project was
   fetched, the project and the project id of the build *)
statusURLs(hasProject, project, urlProjectID) ==
    IF hasProject
    THEN [PreviewURL |-> projectPreviewURL(project, BaseURL),
          ProductionURL |-> resolvePublishURL(BaseURL, project)]
    ELSE IF urlProjectID # ""
    THEN [PreviewURL |-> <<BaseURL, "/preview/", urlProjectID>>,
          ProductionURL |-> <<BaseURL, "/", urlProjectID>>]
    ELSE [PreviewURL |-> <<>>, ProductionURL |-> <<>>]

\* runStatus: c.GetBuild (and the logs, and the project of the build) when
\* --build-id was given, then the URLs and the output
StatusBuild ==
    /\ pc = "status_build"
    /\ IF args.buildID = ""
       THEN LET urls == statusURLs(TRUE, proj, args.projectID)
            IN /\ previewURL' = urls.PreviewURL
               /\ productionURL' = urls.ProductionURL
               /\ emitEnvelope(IF isJSONOutput(flags) THEN Streams
                               ELSE WriteTo(Streams, "stdout", "table"),
                               [success |-> TRUE, command |-> "status",
                                PreviewURL |-> urls.PreviewURL,
                                ProductionURL |-> urls.ProductionURL])
               /\ UNCHANGED <<trace, proj, build>>
       ELSE \E resp \in BackendOutcomes, status \in {"success", "failed"},
               buildProjectID \in ProjectIDs,
               logsResp \in BackendOutcomes,
               projResp \in BackendOutcomes, project \in Projects :
              LET hadProject == args.projectID # ""
                  b == Build(args.buildID, status)
                  wantLogs == resp = NoFailure /\ args.logs
                  logsFailed == wantLogs /\ logsResp # NoFailure
                  wantProject == resp = NoFailure /\ ~logsFailed
                                 /\ ~hadProject /\ buildProjectID # ""
                  gotProject == wantProject /\ projResp = NoFailure
                  hasProject == hadProject \/ gotProject
                  project1 == IF gotProject THEN project ELSE proj
                  urlProjectID ==
                      IF args.projectID # "" THEN args.projectID
                      ELSE IF hasProject THEN project1.ProjectID
                      ELSE buildProjectID
                  urls == statusURLs(hasProject, project1, urlProjectID)
                  calls == <<OnBuild(BuildCall("GetBuild", resp, b),
                                    args.buildID)>>
                           \o (IF wantLogs
                               THEN <<OnBuild(Call("GetBuildLogs", logsResp, ""),
                                              args.buildID)>>
                               ELSE <<>>)
                           \o (IF wantProject
                               THEN <<Call("GetProject", projResp, "")>>
                               ELSE <<>>)
              IN /\ (~wantLogs => logsResp = NoFailure)
                 /\ (~wantProject => projResp = NoFailure)
                 /\ (~gotProject => project = NilProject)
                 /\ (resp # NoFailure =>
                        status = "success" /\ buildProjectID = "")
                 /\ trace' = trace \o calls
                 /\ IF resp # NoFailure
                    THEN /\ Return(newCLIError("api_error",
                              <<"failed to get build">>, 2, CallError(resp)))
                         /\ SetStreams(logf(flags, Streams))
                         /\ UNCHANGED <<proj, build, previewURL,
                                        productionURL, response>>
                    ELSE IF logsFailed
                    THEN /\ Return(newCLIError("api_error",
                              <<"failed to get logs">>, 2,
                              CallError(logsResp)))
                         /\ SetStreams(logf(flags, Streams))
                         /\ build' = b
                         /\ UNCHANGED <<proj, previewURL, productionURL,
                                        response>>
                    ELSE /\ build' = b
                         /\ proj' = project1
                         /\ previewURL' = urls.PreviewURL
                         /\ productionURL' = urls.ProductionURL
                         /\ emitEnvelope(
                              IF isJSONOutput(flags)
                              THEN logf(flags, Streams)
                              ELSE WriteTo(logf(flags, Streams), "stdout",
                                           "table"),
                              [success |-> TRUE, command |-> "status",
                               PreviewURL |-> urls.PreviewURL,
                               ProductionURL |-> urls.ProductionURL])
    /\ UNCHANGED <<flags, commit, elapsed, waitResult, published, defers,
                   report, exitCode, observed, pure>>

NextCommands ==
    \/ PublishCommand
    \/ PublishURL
    \/ StatusProject
    \/ StatusBuild
    \/ Exit

SpecCommands == InitCommands /\ [][NextCommands]_vars

-----------------------------------------------------------------------------
(* The login command: the device-code poll loop and the configuration file *)

MaxLoginTimeout == 4
MaxPollLatency == 1500
DefaultIntervalSec == 5
SlowDownExtraSec == 2
MinWaitSec == 1

(* --timeout of login, in seconds *)
LoginTimeouts == {0, 1, MaxLoginTimeout}

(* a line of the YAML configuration file: a key with its value, or a
   comment *)
Entry(key, value) == [key |-> key, value |-> value]
File(lines) == [exists |-> TRUE, malformed |-> FALSE, lines |-> lines]
Malformed == [exists |-> TRUE, malformed |-> TRUE, lines |-> <<>>]

HandWritten == File(<<Entry("#", "managed by hand"),
                     Entry("visibility", "private")>>)

ConfigFiles ==
    {NoFile, File(<<>>), Malformed, HandWritten,
     File(<<Entry("visibility", "private"), Entry("base_url", "https://old"),
            Entry("api_key", "old")>>)}

(* yaml.Unmarshal into map[string]interface{}: the keys with their values;
   comments and the order of the lines are not part of the map *)
yamlUnmarshal(lines) ==
    LET keys == {lines[i].key : i \in {j \in 1..Len(lines) :
                                          lines[j].key # "#"}}
    IN [k \in keys |->
          lines[CHOOSE i \in 1..Len(lines) : lines[i].key = k].value]

(* yaml.Marshal of a map: one line per key, keys in sorted order *)
SortedKeys == <<"api_key", "base_url", "visibility">>
yamlMarshal(cfg) ==
    LET IsKey(k) == k \in DOMAIN cfg
        keys == SelectSeq(SortedKeys, IsKey)
    IN [i \in 1..Len(keys) |-> Entry(keys[i], cfg[keys[i]])]

(* a map of base_url and api_key alone *)
onlyCredentials(cfg, baseURL, apiKey) ==
    [k \in {"base_url", "api_key"} |->
        IF k = "base_url" THEN TrimSpace(baseURL) ELSE TrimSpace(apiKey)]

(* the map with base_url and api_key set *)
withCredentials(cfg, baseURL, apiKey) ==
    [k \in DOMAIN cfg \cup {"base_url", "api_key"} |->
        IF k = "base_url" THEN TrimSpace(baseURL)
        ELSE IF k = "api_key" THEN TrimSpace(apiKey)
        ELSE cfg[k]]

(* what the server answers to a poll: a transport failure, or a status
   (2xx or not) with the fields of the JSON body *)
Answer(transport, ok, error, retry, token, apiKey) ==
    [transport |-> transport, ok |-> ok, error |-> error,
     retry_after_seconds |-> retry, access_token |-> token,
     api_key |-> apiKey]

PollAnswers ==
    {Answer(TRUE, FALSE, "", 0, "", "")}
    \cup {Answer(FALSE, TRUE, "", 0, t, "") : t \in {"", " ", "tok"}}
    \cup {Answer(FALSE, TRUE, "", 0, "", "key")}
    \cup {Answer(FALSE, TRUE, "authorization_pending", 0, "", "")}
    \cup {Answer(FALSE, FALSE, "authorization_pending", 0, "", "")}
    \cup {Answer(FALSE, FALSE, "slow_down", r, "", "") : r \in {-1, 2}}
    \cup {Answer(FALSE, FALSE, e, 0, "", "") : e \in {"access_denied", ""}}
    \cup {Answer(FALSE, FALSE, "access_denied", 0, "tok", "")}

(* firstNonEmpty of two strings *)
firstNonEmpty(x, y) ==
    IF TrimSpace(x) # "" THEN TrimSpace(x)
    ELSE IF TrimSpace(y) # "" THEN TrimSpace(y)
    ELSE ""

(* pollDeviceToken: the token, or the error, of one poll; api_key is the
   credential extractAPIKey finds in the body under another name *)
pollDeviceToken(a) ==
    IF a.transport
    THEN [token |-> "",
          err |-> [kind |-> "plain",
                   text |-> <<"device poll request failed", ": ",
                              "dial tcp: connection refused">>]]
    ELSE IF a.ok
    THEN LET token == TrimSpace(firstNonEmpty(TrimSpace(a.access_token),
                                              TrimSpace(a.api_key)))
         IN IF token = ""
            THEN [token |-> "",
                  err |-> [kind |-> "plain",
                           text |-> <<"device poll response missing ",
                                      "access token">>]]
            ELSE [token |-> token, err |-> [kind |-> "nil"]]
    ELSE LET code == IF TrimSpace(a.error) = "" THEN "http_400"
                     ELSE TrimSpace(a.error)
         IN [token |-> "",
             err |-> [kind |-> "device", Code |-> code,
                      text |-> <<"device poll failed (", code, ")">>,
                      RetryAfter |-> IF a.retry_after_seconds * Second < 0
                                     THEN 0
                                     ELSE a.retry_after_seconds * Second,
                      Fatal |-> ~(code = "authorization_pending"
                                  \/ code = "slow_down")]]

(* a sleep of the whole wait, however close the deadline *)
sleepUntilDeadlineWhole(now, deadline, waitFor) ==
    LET asked == IF waitFor <= 0 THEN MinWaitSec * Second ELSE waitFor
        remaining == deadline - now
    IN IF remaining <= 0 THEN [slept |-> FALSE, for |-> 0]
       ELSE [slept |-> TRUE, for |-> asked]

(* sleepUntilDeadline at the time `now`: whether it slept, and how long *)
sleepUntilDeadline(now, deadline, waitFor) ==
    LET asked == IF waitFor <= 0 THEN MinWaitSec * Second ELSE waitFor
        remaining == deadline - now
    IN IF remaining <= 0 THEN [slept |-> FALSE, for |-> 0]
       ELSE [slept |-> TRUE,
             for |-> IF asked > remaining THEN remaining ELSE asked]

(* a wait of the interval after every device poll error *)
waitAfterInterval(pollErr, interval) == interval

(* the wait pollForDeviceToken asks for after a device poll error *)
waitAfter(pollErr, interval) ==
    CASE TrimSpace(pollErr.Code) = "authorization_pending" -> interval
      [] TrimSpace(pollErr.Code) = "slow_down" ->
           IF pollErr.RetryAfter <= 0
           THEN interval + SlowDownExtraSec * Second
           ELSE pollErr.RetryAfter
      [] OTHER -> interval

(* whether pollForDeviceToken gives up at once on a device poll error *)
givesUp(pollErr) ==
    /\ TrimSpace(pollErr.Code) \notin {"authorization_pending", "slow_down"}
    /\ pollErr.Fatal

loginTimedOut(timeout) ==
    <<"login timed out after ", SecondsText(timeout), " seconds">>

(* the device-start response *)
StartResponse(ok, deviceCode, verificationURI, interval) ==
    [ok |-> ok, DeviceCode |-> deviceCode,
     VerificationURI |-> verificationURI, Interval |-> interval]

StartResponses ==
    {StartResponse(FALSE, "", "", 0), StartResponse(TRUE, " ", "/device", 0),
     StartResponse(TRUE, "dc", "", 0)}
    \cup {StartResponse(TRUE, "dc", "/device", i) : i \in {0, 1}}

(* resolveEndpoint: whether the path or URL is usable *)
resolveEndpoint(pathOrURL) == TrimSpace(pathOrURL) # ""

(* a login that may run up to its longest timeout, over one file *)
InitLogin ==
    /\ \E f \in FlagSets :
         /\ f.publish /\ f.wait /\ f.localBuild /\ f.timeout = MaxTimeout
         /\ f.outputFormat # "xml"
         /\ Fresh(f)
    /\ observed = {}
    /\ local = NoLocal
    /\ tree = <<>>
    /\ zip = <<>>
    /\ name = <<>>
    /\ nameErr = "none"
    /\ ran = <<>>
    /\ artifactDir = ""
    /\ args = [command |-> "login", projectID |-> "", buildID |-> "",
               logs |-> FALSE]
    /\ \E t \in LoginTimeouts : login = [NoLogin EXCEPT !.timeout = t]
    /\ config = HandWritten

(* a login of a short timeout, over every configuration file *)
InitLoginConfig ==
    /\ \E f \in FlagSets :
         /\ f.publish /\ f.wait /\ f.localBuild /\ f.timeout = MaxTimeout
         /\ f.outputFormat # "xml"
         /\ Fresh(f)
    /\ observed = {}
    /\ local = NoLocal
    /\ tree = <<>>
    /\ zip = <<>>
    /\ name = <<>>
    /\ nameErr = "none"
    /\ ran = <<>>
    /\ artifactDir = ""
    /\ args = [command |-> "login", projectID |-> "", buildID |-> "",
               logs |-> FALSE]
    /\ \E t \in {0, 1} : login = [NoLogin EXCEPT !.timeout = t]
    /\ config \in ConfigFiles

loginFailed(inner) ==
    newCLIError("login_failed", <<"device login failed">>, 2, inner)

\* runLogin up to the poll loop: the checks of the timeout, the base URL and
\* the two endpoints, startDeviceLogin, the verification URL, the browser,
\* the interval, and the deadline of pollForDeviceToken
LoginStart ==
    /\ pc = "start"
    /\ args.command = "login"
    /\ \E baseURL \in {"", BaseURL}, startPath \in {"", "/api/auth/device"},
          pollPath \in {"", "/api/auth/device"}, start \in StartResponses,
          browser \in {"none", "failed", "opened"} :
         IF login.timeout <= 0
         THEN /\ Return(newCLIError("invalid_argument",
                   <<"--timeout must be greater than 0">>, 1, <<>>))
              /\ UNCHANGED <<stdout, stderr, login, elapsed>>
         ELSE IF TrimSpace(baseURL) = ""
         THEN /\ Return(newCLIError("missing_base_url",
                   <<"base URL is required">>, 1, <<>>))
              /\ UNCHANGED <<stdout, stderr, login, elapsed>>
         ELSE IF ~resolveEndpoint(startPath)
         THEN /\ Return(newCLIError("invalid_argument",
                   <<"invalid --device-start-path">>, 1, <<"empty path">>))
              /\ UNCHANGED <<stdout, stderr, login, elapsed>>
         ELSE IF ~resolveEndpoint(pollPath)
         THEN /\ Return(newCLIError("invalid_argument",
                   <<"invalid --device-poll-path">>, 1, <<"empty path">>))
              /\ UNCHANGED <<stdout, stderr, login, elapsed>>
         ELSE IF ~start.ok
         THEN /\ Return(newCLIError("login_start_failed",
                   <<"failed to start device login">>, 2,
                   <<"device-start request failed">>))
              /\ SetStreams(logf(flags, Streams))
              /\ UNCHANGED <<login, elapsed>>
         ELSE IF TrimSpace(start.DeviceCode) = ""
         THEN /\ Return(newCLIError("login_start_failed",
                   <<"device login response missing device_code">>, 2, <<>>))
              /\ SetStreams(logf(flags, Streams))
              /\ UNCHANGED <<login, elapsed>>
         ELSE IF TrimSpace(start.VerificationURI) = ""
         THEN /\ Return(newCLIError("login_start_failed",
                   <<"device login response missing verification URL">>, 2,
                   <<>>))
              /\ SetStreams(logf(flags, Streams))
              /\ UNCHANGED <<login, elapsed>>
         ELSE LET said == logf(flags, logf(flags, logf(flags, logf(flags,
                              logf(flags, Streams)))))
              IN /\ SetStreams(IF browser = "failed" THEN logf(flags, said)
                               ELSE said)
                 /\ login' = [login EXCEPT
                       !.interval = IF start.Interval * Second <= 0
                                    THEN DefaultIntervalSec * Second
                                    ELSE start.Interval * Second]
                 /\ elapsed' = 0
                 /\ Goto("login_check")
    /\ UNCHANGED <<flags, proj, build, commit, waitResult, published,
                   previewURL, productionURL, defers, response, report,
                   exitCode, trace, observed, tree, zip, name, nameErr, local,
                   ran, artifactDir, args, config>>

\* pollForDeviceToken: the test of the deadline at the top of the loop
LoginCheck ==
    /\ pc = "login_check"
    /\ \E d \in StmtDelays :
         /\ elapsed' = elapsed + d
         /\ IF elapsed + d > login.timeout * Second
            THEN Return(loginFailed(loginTimedOut(login.timeout)))
            ELSE Goto("login_poll")
    /\ UNCHANGED <<flags, proj, build, commit, waitResult, published,
                   previewURL, productionURL, defers, stdout, stderr,
                   response, report, exitCode, trace, observed, pure>>

\* pollForDeviceToken: pollDeviceToken and what the loop makes of its result
LoginPoll ==
    /\ pc = "login_poll"
    /\ \E a \in PollAnswers, latency \in {0, MaxPollLatency} :
         LET r == pollDeviceToken(a)
             polled == Append(login.log,
                         [kind |-> "poll", at |-> elapsed, answer |-> a,
                          for |-> 0])
         IN /\ elapsed' = elapsed + latency
            /\ IF r.err.kind = "nil"
               THEN IF TrimSpace(r.token) = ""
                    THEN /\ Return(loginFailed(
                              <<"device poll succeeded but no access ",
                                "token found">>))
                         /\ login' = [login EXCEPT !.log = polled]
                    ELSE /\ login' = [login EXCEPT !.log = polled,
                                         !.token = TrimSpace(r.token)]
                         /\ Goto("login_write")
               ELSE IF r.err.kind = "plain"
               THEN /\ Return(loginFailed(r.err.text))
                    /\ login' = [login EXCEPT !.log = polled]
               ELSE IF givesUp(r.err)
               THEN /\ Return(loginFailed(r.err.text))
                    /\ login' = [login EXCEPT !.log = polled]
               ELSE /\ login' = [login EXCEPT !.log = polled,
                        !.waitFor = waitAfter(r.err, login.interval)]
                    /\ Goto("login_wait")
    /\ UNCHANGED <<flags, proj, build, commit, waitResult, published,
                   previewURL, productionURL, defers, stdout, stderr,
                   response, report, exitCode, trace, observed, tree, zip,
                   name, nameErr, local, ran, artifactDir, args, config>>

\* pollForDeviceToken: sleepUntilDeadline after a poll that asks to go on
LoginWait ==
    /\ pc = "login_wait"
    /\ LET s == sleepUntilDeadline(elapsed, login.timeout * Second,
                                   login.waitFor)
       IN IF ~s.slept
          THEN /\ Return(loginFailed(loginTimedOut(login.timeout)))
               /\ UNCHANGED <<elapsed, login>>
          ELSE /\ elapsed' = elapsed + s.for
               /\ login' = [login EXCEPT !.log =
                     Append(login.log,
                       [kind |-> "wait", at |-> elapsed,
                        answer |-> login.log[Len(login.log)].answer,
                        for |-> s.for])]
               /\ Goto("login_check")
    /\ UNCHANGED <<flags, proj, build, commit, waitResult, published,
                   previewURL, productionURL, defers, stdout, stderr,
                   response, report, exitCode, trace, observed, tree, zip,
                   name, nameErr, local, ran, artifactDir, args, config>>

(* writeCredentialsToConfig: the error, if any, and the file afterwards;
   `fs` is what the file system does (a write that fails may have
   truncated the file already) *)
writeCredentialsToConfig(file, fs, baseURL, apiKey) ==
    IF file.exists /\ fs = "read_error"
    THEN [err |-> <<"failed to read existing config">>, file |-> file]
    ELSE IF file.exists /\ file.malformed
    THEN [err |-> <<"failed to parse existing config">>, file |-> file]
    ELSE LET cfg == IF file.exists THEN yamlUnmarshal(file.lines)
                    ELSE yamlUnmarshal(<<>>)
             out == yamlMarshal(withCredentials(cfg, baseURL, apiKey))
         IN IF fs = "mkdir_error"
            THEN [err |-> <<"failed to ensure config directory">>,
                  file |-> file]
            ELSE IF fs = "write_error"
            THEN [err |-> <<"failed to write config file">>, file |-> file]
            ELSE IF fs = "write_truncated"
            THEN [err |-> <<"failed to write config file">>,
                  file |-> IF file.exists THEN File(<<>>) ELSE file]
            ELSE [err |-> <<>>, file |-> File(out)]

\* runLogin after the poll loop: resolveConfigWritePath,
\* writeCredentialsToConfig and emitSuccess
LoginWrite ==
    /\ pc = "login_write"
    /\ \E resolved \in BOOLEAN, fs \in {"ok", "read_error", "mkdir_error", "write_error",
                 "write_truncated"} :
         IF ~resolved
         THEN /\ Return(newCLIError("config_error",
                   <<"failed to resolve config path">>, 1,
                   <<"$HOME is not defined">>))
              /\ UNCHANGED <<stdout, stderr, response, login, config>>
         ELSE LET w == writeCredentialsToConfig(config, fs, BaseURL,
                                                login.token)
              IN /\ config' = w.file
                 /\ IF w.err # <<>>
                    THEN /\ Return(newCLIError("config_write_failed",
                              <<"failed to write credentials to config">>, 1,
                              w.err))
                         /\ UNCHANGED <<stdout, stderr, response, login>>
                    ELSE /\ login' = [login EXCEPT !.written = TRUE]
                         /\ emitEnvelope(logf(flags, Streams),
                              [success |-> TRUE, command |-> "login",
                               BaseURL |-> BaseURL,
                               ConfigFile |-> "config.yaml"])
    /\ UNCHANGED <<flags, proj, build, commit, elapsed, waitResult, published,
                   previewURL, productionURL, defers, report, exitCode, trace,
                   observed, tree, zip, name, nameErr, local, ran,
                   artifactDir, args>>

NextLogin ==
    \/ LoginStart
    \/ LoginCheck
    \/ LoginPoll
    \/ LoginWait
    \/ LoginWrite
    \/ Exit

SpecLogin == InitLogin /\ [][NextLogin]_vars

SpecLoginConfig == InitLoginConfig /\ [][NextLogin]_vars

(* every step the login can take is eventually taken: each call and each
   sleep returns *)
SpecLoginLive == SpecLogin /\ WF_vars(NextLogin)

----------------------------------------------------------------------------
(* Vocabulary of the properties *)

Ops(i) == trace[i].op
Idx == 1..Len(trace)

BuildInitiating == {"TriggerBuild", "StartBuild", "UploadBuildArtifacts"}
BuildStage == BuildInitiating \cup {"ShellInstall", "ShellBuild"}
BackendOps == {"CreateProject", "UploadSource", "TriggerBuild", "StartBuild",
               "UploadBuildArtifacts", "GetBuild", "GetBuildLogs",
               "PublishBuild"}

(* the documented position of an operation in the pipeline *)
Rank(op) ==
    CASE op = "CreateProject" -> 1
      [] op = "UploadSource" -> 2
      [] op \in BuildStage -> 3
      [] op \in {"GetBuild", "GetBuildLogs"} -> 4
      [] OTHER -> 5

Exited == pc = "exited"
Failed == Exited /\ err.kind # "nil"
Classified == classifyError(err)
InText(text, chunk) == \E i \in 1..Len(text) : text[i] = chunk

Taxonomy ==
    {"invalid_project_path", "invalid_project_name", "invalid_argument",
     "missing_base_url", "missing_api_key", "api_error", "package_failed",
     "local_build_unsupported", "build_failed", "publish_failed",
     "output_error"}

ExitCodeOf(code) ==
    CASE code \in {"invalid_project_path", "invalid_project_name",
                   "missing_base_url", "missing_api_key", "package_failed",
                   "output_error"} -> 1
      [] code \in {"api_error", "local_build_unsupported"} -> 2
      [] code = "build_failed" -> 3
      [] code = "publish_failed" -> 4
      [] OTHER -> -1

----------------------------------------------------------------------------
\* C1: the operations of one deploy occur in the documented order: the
\* project is resolved successfully before the upload starts, the upload
\* has returned before any build-stage operation (TriggerBuild, StartBuild,
\* shell step, UploadBuildArtifacts), a build-initiating call has returned
\* before the first GetBuild, and PublishBuild comes after every GetBuild
\* (after at least one when waiting) and after the build-initiating call.
C1_DocumentedOrder ==
    /\ \A i \in Idx : \A j \in Idx :
         i < j => Rank(Ops(i)) <= Rank(Ops(j))
    /\ \A j \in Idx : Rank(Ops(j)) >= 2 =>
         \E i \in 1..(j - 1) : Ops(i) = "CreateProject" /\ trace[i].ok
    /\ \A j \in Idx : Rank(Ops(j)) >= 3 =>
         \E i \in 1..(j - 1) : Ops(i) = "UploadSource" /\ trace[i].ok
    /\ \A j \in Idx : Rank(Ops(j)) >= 4 =>
         \E i \in 1..(j - 1) : Ops(i) \in BuildInitiating /\ trace[i].ok
    /\ \A j \in Idx : (Ops(j) = "PublishBuild" /\ flags.wait) =>
         \E i \in 1..(j - 1) : Ops(i) = "GetBuild" /\ trace[i].ok

\* C1 witness: a remote deploy that polled twice and then published
C1_Witness ==
    /\ Exited
    /\ Len(trace) = 6
    /\ Ops(3) = "TriggerBuild"
    /\ Ops(4) = "GetBuild" /\ Ops(5) = "GetBuild"
    /\ Ops(6) = "PublishBuild" /\ trace[6].ok

\* C2: a fatal condition aborts the rest of the pipeline: a failed call or
\* shell step is the last operation of the invocation, once an error is
\* being returned no operation is made and no success envelope is written,
\* and no backend operation other than GetBuild is invoked twice.
C2_AbortOnError ==
    /\ [](/\ \A i \in Idx : ~trace[i].ok => i = Len(trace)
          /\ (\E i \in Idx : ~trace[i].ok) => response = NoResponse
          /\ err.kind # "nil" => response = NoResponse
          /\ \A op \in BackendOps \ {"GetBuild"} :
               Cardinality({i \in Idx : Ops(i) = op}) <= 1)
    /\ [][err.kind # "nil" =>
             (trace' = trace /\ stdout' = stdout /\ response' = response)]_vars

\* C2 witness: the upload failed after the project was resolved, and the
\* invocation ended there
C2_Witness ==
    /\ Exited
    /\ Len(trace) = 2
    /\ Ops(2) = "UploadSource" /\ ~trace[2].ok
    /\ exitCode = 2

\* C3: after a GetBuild that returned success or failed there is no further
\* GetBuild in the invocation.
C3_NoPollAfterTerminal ==
    \A i \in Idx : \A j \in Idx :
        (/\ i < j
         /\ Ops(i) = "GetBuild" /\ trace[i].ok
         /\ trace[i].status \in {"success", "failed"})
        => Ops(j) # "GetBuild"

\* C3 witness: a poll returned failed and the invocation went on to fetch
\* the logs and exit
C3_Witness ==
    /\ Exited
    /\ \E i \in Idx : /\ Ops(i) = "GetBuild" /\ trace[i].status = "failed"
                      /\ i < Len(trace)
                      /\ Ops(i + 1) = "GetBuildLogs"

\* C4: when the poll loop gives up with a timeout, the configured timeout
\* has passed, at least one poll interval (5 s) has passed since polling
\* started, the failure comes no later than one poll round after the
\* timeout, and the invocation reports build_failed.
C4_TimeoutBoundary ==
    waitResult = "timeout" =>
        /\ elapsed >= flags.timeout * Second
        /\ elapsed >= PollInterval
        /\ elapsed <= flags.timeout * Second + PollInterval + MaxLatency + 1
        /\ Exited => (Classified.code = "build_failed" /\ exitCode = 3)

\* C5: over the invocations a caller observes, the three build_failed
\* causes (backend-reported failure, timeout, unknown status) all exit 3
\* and no message is reported for two different causes.
C5_DistinctMessages ==
    \A a \in observed : \A b \in observed :
        /\ a[2] = 3
        /\ a[1] # b[1] => a[3] # b[3]

\* C6: a failed backend call other than PublishBuild (GetBuild during
\* polling included) is reported as api_error with exit code 2.
C6_BackendFailureIsApiError ==
    (/\ Exited
     /\ \E i \in Idx :
          /\ ~trace[i].ok
          /\ Ops(i) \in {"CreateProject", "UploadSource", "TriggerBuild",
                         "StartBuild", "UploadBuildArtifacts", "GetBuild"})
    => (Classified.code = "api_error" /\ exitCode = 2)

\* C7: when a backend call fails, what is reported to the caller contains
\* the backend's error message if the response carried one, and the generic
\* status-code message otherwise.
C7_BackendMessageSurfaced ==
    \A i \in Idx :
        (/\ Exited
         /\ ~trace[i].ok
         /\ Ops(i) \in BackendOps \ {"GetBuildLogs"}
         /\ ~trace[i].resp.transport)
        => LET shown == report.message \o report.details IN
           IF trace[i].resp.Message # ""
           THEN InText(shown, trace[i].resp.Message)
           ELSE InText(shown, "API error:")
                /\ InText(shown, trace[i].resp.StatusCode)

\* C8: an invocation is reported as publish_failed, or exits 4, only if its
\* last operation was a PublishBuild that failed, made for a build observed
\* as success.
C8_PublishFailedOnlyFromPublish ==
    (Exited /\ (Classified.code = "publish_failed" \/ exitCode = 4))
    => /\ Len(trace) > 0
       /\ Ops(Len(trace)) = "PublishBuild"
       /\ ~trace[Len(trace)].ok
       /\ build.Status = "success"
       /\ Classified.code = "publish_failed"
       /\ exitCode = 4

\* C9: the exit code is in 0..4, it is 0 exactly when the command returned
\* no error, and an error with one of the listed codes exits with the code's
\* fixed exit status (1, 2, 3 or 4).
C9_ExitCodes ==
    Exited =>
        /\ exitCode \in 0..4
        /\ exitCode = 0 <=> err.kind = "nil"
        /\ (err.kind # "nil" /\ ExitCodeOf(Classified.code) # -1)
             => exitCode = ExitCodeOf(Classified.code)

\* C9 witness: a polling timeout left the process with status 3
C9_Witness ==
    /\ Exited
    /\ waitResult = "timeout"
    /\ Classified.code = "build_failed"
    /\ exitCode = 3

\* C10: every failure of a deploy invocation is classified with a code of
\* the closed taxonomy.
C10_ClosedTaxonomy ==
    Failed => Classified.code \in Taxonomy

----------------------------------------------------------------------------
(* Vocabulary of the claims on streams, publishing and bundles *)

Count(stream, kind) ==
    Cardinality({i \in 1..Len(stream) : stream[i] = kind})

(* the calls whose response reports a build status *)
StatusCalls == {"UploadSource", "TriggerBuild", "UploadBuildArtifacts",
                "GetBuild"}
Observations == {i \in Idx : Ops(i) \in StatusCalls /\ trace[i].ok}
LastObservation == CHOOSE i \in Observations : \A j \in Observations : j <= i
LastObservedStatus ==
    IF Observations = {} THEN "" ELSE trace[LastObservation].status

Called(op) == \E i \in Idx : Ops(i) = op

(* runDeploy has gone past its publish block *)
PastPublish ==
    \/ pc = "emit"
    \/ /\ pc \in {"returned", "exited"}
       /\ \/ err.kind = "nil"
          \/ err.Code \in {"publish_failed", "output_error"}

KnownStatuses == {"queued", "running", "success", "failed"}

C12_PublishIffSuccess ==
    /\ Called("PublishBuild") =>
           (flags.publish /\ LastObservedStatus = "success")
    /\ PastPublish =>
           (Called("PublishBuild") <=>
               (flags.publish /\ LastObservedStatus = "success"))

\* C12 witness: polling saw success and the build was published
C12_Witness ==
    /\ Exited
    /\ Len(trace) >= 2
    /\ Ops(Len(trace)) = "PublishBuild"
    /\ Ops(Len(trace) - 1) = "GetBuild"
    /\ trace[Len(trace) - 1].status = "success"

\* C13: a GetBuild answer with a status outside queued, running, success,
\* failed ends polling at once: it is the last operation of the invocation
\* (no sleep, no further poll, no publish), which fails with build_failed
\* and exit code 3.
C13_UnknownStatusStops ==
    \A i \in Idx :
        (/\ Ops(i) = "GetBuild" /\ trace[i].ok
         /\ trace[i].status \notin KnownStatuses)
        => /\ i = Len(trace)
           /\ pc \in {"returned", "exited"}
           /\ err.Code = "build_failed" /\ err.ExitCode = 3
           /\ Exited => (Classified.code = "build_failed" /\ exitCode = 3)

\* C13 witness: a deploy asked to publish got an unknown status and exited 3
C13_Witness ==
    /\ Exited
    /\ flags.publish
    /\ waitResult = "unknown"
    /\ trace[Len(trace)].status = "weird"
    /\ exitCode = 3

\* C14: in local-build mode, an upload that returned no build id is the last
\* operation of the invocation: it fails with local_build_unsupported and
\* exit code 2, and no shell step, artifact packaging, UploadBuildArtifacts,
\* GetBuild or PublishBuild takes place.
C14_LocalBuildUnsupported ==
    \A i \in Idx :
        (/\ flags.localBuild
         /\ Ops(i) = "UploadSource" /\ trace[i].ok /\ trace[i].id = "")
        => /\ i = Len(trace)
           /\ pc \in {"returned", "exited"}
           /\ err.Code = "local_build_unsupported" /\ err.ExitCode = 2
           /\ bundles.artifact = "none"
           /\ Exited => /\ Classified.code = "local_build_unsupported"
                        /\ exitCode = 2

\* C14 witness: a local-build deploy whose upload returned a commit but no
\* build exited 2
C14_Witness ==
    /\ Exited
    /\ flags.localBuild
    /\ Len(trace) = 2
    /\ trace[2].ok /\ trace[2].id = ""
    /\ exitCode = 2

ScenarioA ==
    /\ flags.publish /\ flags.wait /\ ~flags.localBuild
    /\ isJSONOutput(flags)
    /\ proj.ProjectID = "proj_1"
    /\ Len(trace) >= 5
    /\ Ops(1) = "CreateProject" /\ trace[1].ok
    /\ Ops(2) = "UploadSource" /\ trace[2].ok /\ trace[2].id = ""
    /\ Ops(3) = "TriggerBuild" /\ trace[3].ok /\ trace[3].id = "b1"
    /\ Ops(4) = "GetBuild" /\ trace[4].ok /\ trace[4].status = "running"
    /\ Ops(5) = "GetBuild" /\ trace[5].ok /\ trace[5].status = "success"
    /\ trace[5].id = "b1" /\ trace[5].path # ""

\* C18: in the scenario above, GetBuild is called exactly twice and the next
\* operation is PublishBuild; when it returns a public path and the envelope
\* is written, the envelope carries project_id proj_1, build_id b1,
\* build_status success, the build's preview path as preview_url, the
\* publish result as production_url, published true, waited true and
\* local_build false.
C18_ScenarioAEnvelope ==
    ScenarioA =>
        /\ Len(trace) <= 6
        /\ Len(trace) = 6 => Ops(6) = "PublishBuild"
        /\ pc \in {"emit", "returned", "exited"} => Len(trace) = 6
        /\ (Exited /\ err.kind = "nil" /\ TrimSpace(trace[6].path) # "") =>
               response =
                 [success |-> TRUE, command |-> "deploy",
                  ProjectID |-> "proj_1",
                  BuildID |-> "b1",
                  BuildStatus |-> "success",
                  PreviewURL |-> <<trace[5].path>>,
                  ProductionURL |-> <<trace[6].path>>,
                  Published |-> TRUE,
                  Waited |-> TRUE,
                  LocalBuild |-> FALSE]

\* C18 witness: the scenario ran to exit 0 for a project that has a preview
\* URL of its own
C18_Witness ==
    /\ ScenarioA
    /\ Exited /\ exitCode = 0
    /\ Len(trace) = 6 /\ trace[6].path = "https://prod.example/app"
    /\ proj.PreviewURL # ""
    /\ response.Published

(* runDeploy has gone past its wait block *)
PastAwait == pc \in {"publish", "emit"} \/ PastPublish

(* a preview URL can be resolved from the build or the project *)
PreviewResolvable ==
    \/ TrimSpace(build.PreviewPath) # ""
    \/ TrimSpace(proj.PreviewURL) # ""
    \/ TrimSpace(proj.RuntimeRefs.Preview) # ""
    \/ TrimSpace(proj.ProjectID) # ""

\* C19: without --wait no GetBuild is ever called; a build whose status is
\* already success in the response that created it counts as complete: once
\* past the wait block it has its preview URL (the build's preview path when
\* it has one), and once past the publish block PublishBuild has been
\* called if publishing was requested.
C19_NoWaitNoPoll ==
    ~flags.wait =>
        /\ ~Called("GetBuild")
        /\ (PastAwait /\ LastObservedStatus = "success") =>
               /\ PreviewResolvable => previewURL # <<>>
               /\ TrimSpace(build.PreviewPath) # "" =>
                      previewURL = <<build.PreviewPath>>
        /\ (PastPublish /\ LastObservedStatus = "success" /\ flags.publish) =>
               Called("PublishBuild")

\* C19 witness: a local build uploaded artifacts, the response said success,
\* and the build was published with a preview URL and no poll
C19_Witness ==
    /\ Exited /\ exitCode = 0
    /\ ~flags.wait /\ flags.localBuild /\ flags.publish
    /\ Called("UploadBuildArtifacts") /\ Called("PublishBuild")
    /\ previewURL = <<"https://cdn.example/b1">>

Initiations == {i \in Idx : Ops(i) \in BuildInitiating}

(* the remote branch has chosen its build-initiating call *)
PastRemoteChoice ==
    /\ ~flags.localBuild
    /\ pc # "remote"
    /\ \E i \in Idx : Ops(i) = "UploadSource" /\ trace[i].ok

UploadedBuildID ==
    LET i == CHOOSE i \in Idx : Ops(i) = "UploadSource" IN trace[i].id

(* what holds of the build-initiating calls whatever the choice rule is *)
OneInitiation ==
    /\ Cardinality(Initiations) <= 1
    /\ \A i \in Initiations : \A j \in Idx : Ops(j) = "GetBuild" => i < j
    /\ flags.localBuild =>
           (~Called("TriggerBuild") /\ ~Called("StartBuild"))
    /\ ~flags.localBuild => ~Called("UploadBuildArtifacts")

\* C20 as stated: at most one build-initiating call, none after a GetBuild;
\* remote mode calls TriggerBuild if and only if UploadSource returned no
\* build id and StartBuild if and only if it returned one; local mode calls
\* neither.
C20_InitiationAsStated ==
    /\ OneInitiation
    /\ PastRemoteChoice =>
           /\ Called("TriggerBuild") <=> UploadedBuildID = ""
           /\ Called("StartBuild") <=> UploadedBuildID # ""

\* C20: at most one build-initiating call, none after a GetBuild; remote
\* mode calls TriggerBuild if and only if UploadSource returned no build id
\* but did return a commit id, StartBuild if and only if it returned a build
\* id, and neither when it returned neither id; local mode calls neither.
C20_InitiationByMode ==
    /\ OneInitiation
    /\ PastRemoteChoice =>
           /\ Called("TriggerBuild") <=>
                  (UploadedBuildID = "" /\ commit # "")
           /\ Called("StartBuild") <=> UploadedBuildID # ""

\* C20 witness: upload created the build, StartBuild started it, and polling
\* followed
C20_Witness ==
    /\ Exited
    /\ Len(trace) >= 4
    /\ Ops(2) = "UploadSource" /\ trace[2].id = "b1"
    /\ Ops(3) = "StartBuild" /\ trace[3].ok
    /\ Ops(4) = "GetBuild"

(* one of the segments of the path is a denylist name *)
OnDenylist(file) ==
    \E i \in 1..Len(file) : Len(file[i]) = 1 /\ file[i][1] \in skipDirs

Entries(file) == Cardinality({k \in 1..Len(zip) : zip[k] = file})

\* C16: the source bundle has no entry for a file one of whose path
\* segments equals a denylist name, exactly one entry for every other
\* regular file under the root, and no other entry.
C16_DenylistBySegment ==
    pc = "packaged" =>
        /\ \A k \in 1..Len(tree) :
               Entries(tree[k]) = IF OnDenylist(tree[k]) THEN 0 ELSE 1
        /\ \A k \in 1..Len(zip) : \E j \in 1..Len(tree) : zip[k] = tree[j]

AllowedRunes == {"a", "z", "0", "9", "-"}
AlphanumericRunes == {"a", "z", "0", "9"}

\* C17: the derived project name is accepted if and only if its length is
\* between 4 and 63, each of its characters is a lowercase letter, a digit
\* or a hyphen, and its first and last characters are alphanumeric.
C17_NameRule ==
    pc = "validated" =>
        (nameErr = "nil" <=>
            /\ Len(name) >= 4 /\ Len(name) <= 63
            /\ \A i \in 1..Len(name) : name[i] \in AllowedRunes
            /\ name[1] \in AlphanumericRunes
            /\ name[Len(name)] \in AlphanumericRunes)

\* C17 witness: a name of 63 characters with a hyphen inside was accepted
C17_Witness ==
    /\ pc = "validated"
    /\ nameErr = "nil"
    /\ Len(name) = 63
    /\ name[2] = "-"

----------------------------------------------------------------------------
(* Vocabulary of the claims on the local build, URLs and the envelope *)

Returned == pc \in {"returned", "exited"}

(* a poll that reported the terminal status failed *)
PolledFailed(i) ==
    Ops(i) = "GetBuild" /\ trace[i].ok /\ trace[i].status = "failed"

\* C21: once a poll has reported the terminal status failed, the only call
\* that follows is a single GetBuildLogs, PublishBuild is never called, and
\* the invocation fails with build_failed and exit code 3 whether
\* GetBuildLogs succeeded or not.
C21_FailedBuildLogsOnce ==
    \A i \in Idx :
        PolledFailed(i) =>
            /\ Len(trace) <= i + 1
            /\ Len(trace) = i + 1 => Ops(i + 1) = "GetBuildLogs"
            /\ ~Called("PublishBuild")
            /\ pc \notin {"publish", "emit"}
            /\ Returned =>
                   /\ Len(trace) = i + 1
                   /\ err.kind = "cli"
                   /\ err.Code = "build_failed"
                   /\ err.ExitCode = 3
            /\ Exited =>
                   /\ exitCode = 3
                   /\ response = NoResponse
                   /\ isJSONOutput(flags) => report.code = "build_failed"

C21_Witness ==
    /\ Exited
    /\ exitCode = 3
    /\ Len(trace) >= 2
    /\ PolledFailed(Len(trace) - 1)
    /\ Ops(Len(trace)) = "GetBuildLogs"
    /\ ~trace[Len(trace)].ok

(* a shell step of the local build that exited non-zero *)
ShellFailed(i) == Ops(i) \in {"ShellInstall", "ShellBuild"} /\ ~trace[i].ok

\* C24: the install step runs before the build step; after a non-zero exit
\* of the install step the build step does not run; after a non-zero exit
\* of either step nothing else happens (no artifact bundle, no
\* UploadBuildArtifacts, no poll, no publish) and the invocation fails with
\* build_failed and exit code 3.
C24_LocalStepsOrdered ==
    /\ \A i \in Idx, j \in Idx :
           (Ops(i) = "ShellInstall" /\ Ops(j) = "ShellBuild") => i < j
    /\ \A i \in 1..Len(ran), j \in 1..Len(ran) :
           (ran[i].step = "install" /\ ran[j].step = "build") =>
               i < j /\ ran[i].ok
    /\ \A i \in Idx :
           ShellFailed(i) =>
               /\ i = Len(trace)
               /\ bundles.artifact = "none"
               /\ artifactDir = ""
               /\ Returned
               /\ err.kind = "cli"
               /\ err.Code = "build_failed"
               /\ err.ExitCode = 3
               /\ Exited =>
                      /\ exitCode = 3
                      /\ response = NoResponse
                      /\ isJSONOutput(flags) => report.code = "build_failed"

C24_Witness ==
    /\ Exited
    /\ exitCode = 3
    /\ ran # <<>>
    /\ ran[Len(ran)].step = "install"
    /\ ~ran[Len(ran)].ok
    /\ ShellFailed(Len(trace))

(* the invocation ended with exit status 0 *)
ExitedZero == Exited /\ exitCode = 0

PublishSucceeded ==
    \E i \in Idx : Ops(i) = "PublishBuild" /\ trace[i].ok

\* C28: with --wait, an invocation that exits 0 ended on a build whose
\* status is success, after a poll that reported success, and the envelope
\* it wrote (machine-readable mode) has build_status success; if --publish
\* was given too, PublishBuild was called and succeeded in that invocation.
C28_WaitedSuccess ==
    (flags.wait /\ ExitedZero) =>
        /\ ~build.isNil /\ build.Status = "success"
        /\ isJSONOutput(flags) => response.success
        /\ response.success =>
               response.BuildStatus = "success" /\ response.Waited
        /\ \E i \in Idx :
               Ops(i) = "GetBuild" /\ trace[i].ok
                   /\ trace[i].status = "success"
        /\ flags.publish => PublishSucceeded

C28_Witness ==
    /\ flags.wait
    /\ flags.publish
    /\ ExitedZero
    /\ response.success
    /\ response.BuildStatus = "success"
    /\ PublishSucceeded

\* C29: an invocation never exits 0 while the last build status it observed
\* is failed or a value outside {queued, running, success}.
C29_NoSuccessOnBadStatus ==
    ExitedZero =>
        \/ Observations = {}
        \/ LastObservedStatus \in {"queued", "running", "success"}

\* C30: the published flag of the envelope is true if and only if
\* PublishBuild was called and returned successfully in that invocation.
C30_PublishedIffPublishBuild ==
    response.success => (response.Published <=> PublishSucceeded)

(* a URL as the backend states it: blank means not stated *)
Stated(s) == IF TrimSpace(s) = "" THEN <<>> ELSE <<TrimSpace(s)>>

(* {base}<sep>{project_id}, for a known project id *)
Conventional(sep) ==
    IF TrimSpace(proj.ProjectID) = "" THEN <<>>
    ELSE <<BaseURL, sep, TrimSpace(proj.ProjectID)>>

FirstNonEmpty(urls) ==
    IF \A i \in 1..Len(urls) : urls[i] = <<>> THEN <<>>
    ELSE urls[CHOOSE i \in 1..Len(urls) :
                  urls[i] # <<>> /\ \A j \in 1..(i - 1) : urls[j] = <<>>]

(* runDeploy returned nil: the URLs are final *)
Succeeded == Returned /\ err.kind = "nil"

PublishedPath ==
    trace[CHOOSE i \in Idx : Ops(i) = "PublishBuild" /\ trace[i].ok].path

\* C26: on success of the build the preview URL is the first non-empty of
\* the build's preview path, the project's preview URL fields and
\* {base}/preview/{project_id}; after a successful PublishBuild the
\* production URL is the first non-empty of the PublishBuild result, the
\* project's publish URL fields and {base}/{project_id}. The envelope
\* carries these two values.
C26_URLOrder ==
    Succeeded =>
        /\ (~build.isNil /\ build.Status = "success") =>
               previewURL = FirstNonEmpty(<<Stated(build.PreviewPath),
                                            Stated(proj.PreviewURL),
                                            Stated(proj.RuntimeRefs.Preview),
                                            Conventional("/preview/")>>)
        /\ PublishSucceeded =>
               productionURL = FirstNonEmpty(<<Stated(PublishedPath),
                                               Stated(proj.PublishURL),
                                               Stated(proj.RuntimeRefs.Publish),
                                               Conventional("/")>>)
        /\ response.success =>
               /\ response.PreviewURL = previewURL
               /\ response.ProductionURL = productionURL

C26_Witness ==
    /\ Succeeded
    /\ response.success
    /\ PublishSucceeded
    /\ Stated(PublishedPath) = <<>>
    /\ Stated(build.PreviewPath) = <<>>
    /\ previewURL = Stated(proj.PreviewURL)
    /\ productionURL = Stated(proj.PublishURL)
    /\ previewURL # <<>>
    /\ productionURL # <<>>

----------------------------------------------------------------------------
(* Vocabulary of the claims on the local build *)

FirstNonBlank(texts) ==
    IF \A i \in 1..Len(texts) : TrimSpace(texts[i]) = "" THEN ""
    ELSE TrimSpace(texts[CHOOSE i \in 1..Len(texts) :
                       /\ TrimSpace(texts[i]) # ""
                       /\ \A j \in 1..(i - 1) : TrimSpace(texts[j]) = ""])

(* override, then plan, then the package.json convention *)
ResolvedInstall ==
    FirstNonBlank(<<local.installCmd, local.plan.install_command,
                    IF local.packageJSON THEN "npm install" ELSE "">>)
ResolvedBuild ==
    FirstNonBlank(<<local.buildCmd, local.plan.build_command,
                    IF local.packageJSON THEN "npm run build" ELSE "">>)

(* the commands a step was executed with *)
Executed(step) ==
    {ran[i].command : i \in {k \in 1..Len(ran) : ran[k].step = step}}
Only(command) == IF command = "" THEN {} ELSE {command}

InstallDone == pc # "install"
InstallFailed == \E i \in 1..Len(ran) : ran[i].step = "install" /\ ~ran[i].ok
(* the build step has been decided: it ran or it was skipped *)
BuildDone == pc \notin {"install", "buildstep"} /\ ~InstallFailed

NoOverride == local.installCmd = "" /\ local.buildCmd = ""
(* the BuildPlan of the response says needs_build: false *)
StatesNoBuild == local.plan.present /\ local.plan.needs_build = "false"
(* there is a BuildPlan and it does not say needs_build: true *)
NoBuildDecoded == local.plan.present /\ local.plan.needs_build # "true"

\* C22 as stated: each step executes the first non-empty of its override,
\* the BuildPlan field and the package.json default, and is skipped only
\* when all three are empty.
C22_FirstNonEmptyCommand ==
    /\ InstallDone => Executed("install") = Only(ResolvedInstall)
    /\ BuildDone => Executed("build") = Only(ResolvedBuild)

\* C22 amended: unless there is a BuildPlan that does not say
\* needs_build: true and neither override was given (then no step runs),
\* each step executes the first non-empty of its override, the BuildPlan
\* field and the package.json default, and is skipped when all are empty.
C22_CommandUnlessNoBuild ==
    IF NoBuildDecoded /\ NoOverride
    THEN ran = <<>>
    ELSE /\ InstallDone => Executed("install") = Only(ResolvedInstall)
         /\ BuildDone => Executed("build") = Only(ResolvedBuild)

C22_Witness ==
    /\ BuildDone
    /\ TrimSpace(local.installCmd) = ""
    /\ local.buildCmd = "make all"
    /\ local.plan.present
    /\ local.plan.install_command = "npm ci"
    /\ local.plan.build_command = "vite build"
    /\ local.packageJSON
    /\ Executed("install") = {"npm ci"}
    /\ Executed("build") = {"make all"}

\* C23: once both steps are decided, a step with a resolved command was
\* skipped if and only if the BuildPlan states needs_build=false and no
\* override was given.
C23_SkipOnlyOnStatedNoBuild ==
    BuildDone =>
        /\ ResolvedInstall # "" =>
               (Executed("install") = {} <=> (StatesNoBuild /\ NoOverride))
        /\ ResolvedBuild # "" =>
               (Executed("build") = {} <=> (StatesNoBuild /\ NoOverride))

(* --output-dir as given, then the plan's directory, then dist *)
ExpectedDir ==
    IF local.outputDir # "" THEN local.outputDir
    ELSE IF TrimSpace(local.plan.output_dir) # ""
    THEN TrimSpace(local.plan.output_dir)
    ELSE "dist"

DirectoryMissing ==
    err.kind = "cli" /\ err.Message[1] = "output directory missing: "

\* C27: the packaged directory is the first non-empty of --output-dir, the
\* BuildPlan's output directory and dist; when it is missing the invocation
\* fails with build_failed and exit code 3, and UploadBuildArtifacts is
\* called only after the directory was found and packaged.
C27_ArtifactDirectory ==
    /\ artifactDir # "" => artifactDir = ExpectedDir
    /\ pc \in {"artifact_upload", "await"} =>
           artifactDir # "" /\ bundles.artifact = "exists"
    /\ Called("UploadBuildArtifacts") =>
           artifactDir # "" /\ bundles.artifact # "none"
    /\ (Returned /\ DirectoryMissing) =>
           /\ err.Code = "build_failed"
           /\ err.ExitCode = 3
           /\ err.Message = <<"output directory missing: ", "/abs/",
                              ExpectedDir>>
           /\ bundles.artifact = "none"
           /\ ~Called("UploadBuildArtifacts")
           /\ Exited => exitCode = 3

C27_Witness ==
    /\ Exited
    /\ DirectoryMissing
    /\ exitCode = 3
    /\ local.outputDir = ""
    /\ local.plan.output_dir = "build"
    /\ artifactDir = "build"

----------------------------------------------------------------------------
(* Vocabulary of the claim on the conventional URLs *)

(* a URL made of the base URL, a separator and a project id *)
Conventionally(url) ==
    Len(url) = 3 /\ url[1] = BaseURL /\ url[2] \in {"/", "/preview/"}

ReportedURLs ==
    {previewURL, productionURL}
    \cup (IF response.success /\ response.command \in {"deploy", "status"}
          THEN {response.PreviewURL} ELSE {})
    \cup (IF response.success THEN {response.ProductionURL} ELSE {})

\* C25: no command reports a preview or production URL made of the base URL
\* and an empty project id.
C25_NoURLForUnknownProject ==
    \A url \in ReportedURLs : Conventionally(url) => TrimSpace(url[3]) # ""

----------------------------------------------------------------------------
(* Vocabulary of the claims on the build id, early failures and termination *)

OkCalls(op) == {i \in Idx : Ops(i) = op /\ trace[i].ok}

(* the build id the invocation obtained: from UploadSource, or from
   TriggerBuild when the upload returned none *)
ObtainedID ==
    IF \E i \in OkCalls("UploadSource") : trace[i].id # ""
    THEN trace[CHOOSE i \in OkCalls("UploadSource") : trace[i].id # ""].id
    ELSE IF OkCalls("TriggerBuild") # {}
    THEN trace[CHOOSE i \in OkCalls("TriggerBuild") : TRUE].id
    ELSE ""

\* C31: the id polled with GetBuild, the id passed to PublishBuild and the
\* build_id of the envelope all equal the id obtained from UploadSource (or
\* from TriggerBuild when the upload returned none).
C31_BuildIDStable ==
    /\ \A i \in Idx :
           Ops(i) \in {"GetBuild", "PublishBuild"} =>
               trace[i].arg = ObtainedID
    /\ response.success => response.BuildID = ObtainedID

(* the failures of runDeploy's checks of its path, configuration and name *)
EarlyCodes == {"invalid_project_path", "missing_base_url", "missing_api_key",
               "invalid_project_name"}

\* C32: while the path, the configuration and the project name are being
\* checked, and when one of these checks fails, no backend call was made,
\* no bundle file created and no shell command run; the failure has exit
\* code 1.
C32_EarlyFailuresTouchNothing ==
    /\ pc \in {"path", "config", "name"} =>
           trace = <<>> /\ bundles = NoBundles /\ ran = <<>>
    /\ (Returned /\ err.kind = "cli" /\ err.Code \in EarlyCodes) =>
           /\ trace = <<>>
           /\ bundles = NoBundles
           /\ defers = {}
           /\ ran = <<>>
           /\ err.ExitCode = 1
           /\ Exited =>
                  /\ exitCode = 1
                  /\ response = NoResponse
                  /\ isJSONOutput(flags) => report.code = err.Code

C32_Witness ==
    /\ Exited
    /\ exitCode = 1
    /\ err.kind = "cli"
    /\ err.Code = "invalid_project_name"
    /\ trace = <<>>
    /\ bundles = NoBundles

(* UploadSource succeeded and yielded neither a build id nor a commit id *)
UploadedNothing ==
    /\ OkCalls("UploadSource") # {}
    /\ \A i \in OkCalls("UploadSource") : trace[i].id = ""
    /\ commit = ""

\* C33: in remote mode, after an UploadSource that yielded neither a build
\* id nor a commit id, the invocation fails with build_failed and exit code
\* 3, and TriggerBuild, StartBuild, GetBuild and PublishBuild are not
\* called.
C33_NothingToBuild ==
    (~flags.localBuild /\ UploadedNothing) =>
        /\ \A op \in {"TriggerBuild", "StartBuild", "GetBuild",
                      "PublishBuild"} : ~Called(op)
        /\ Ops(Len(trace)) = "UploadSource"
        /\ pc \in {"remote", "returned", "exited"}
        /\ Returned =>
               /\ err.kind = "cli"
               /\ err.Code = "build_failed"
               /\ err.ExitCode = 3
               /\ err.Message = <<"no commit ID available to trigger build">>
        /\ Exited =>
               /\ exitCode = 3
               /\ response = NoResponse

C33_Witness ==
    /\ ~flags.localBuild
    /\ UploadedNothing
    /\ Exited
    /\ exitCode = 3
    /\ err.Code = "build_failed"

Polls == Cardinality({i \in Idx : Ops(i) = "GetBuild"})

(* the polls a timeout of flags.timeout seconds leaves room for *)
MaxPolls ==
    IF flags.timeout < 0 THEN 0 ELSE (flags.timeout \div PollIntervalSec) + 1

\* C34: every deploy invocation eventually terminates; the poll loop makes
\* at most one GetBuild call per 5 s of the timeout plus one, and ends in
\* success, failed, unknown status, API error or timeout.
C34_Terminates ==
    /\ <>Exited
    /\ [](Polls <= MaxPolls)
    /\ []((Polls > 0 /\ Returned) =>
             /\ waitResult \in {"terminal", "unknown", "error", "timeout"}
             /\ waitResult = "terminal" =>
                    build.Status \in {"success", "failed"})

C34_Witness ==
    /\ Exited
    /\ Polls = MaxPolls
    /\ Polls >= 2
    /\ waitResult = "timeout"


----------------------------------------------------------------------------
(* The login command *)

Deadline == login.timeout * Second

IsPoll(i) == login.log[i].kind = "poll"
IsWait(i) == login.log[i].kind = "wait"
LastEvent == Len(login.log)

(* the server answered a non-2xx status with this error code *)
Answered(a, code) == ~a.transport /\ ~a.ok /\ a.error = code

AsksToGoOn(a) ==
    Answered(a, "authorization_pending") \/ Answered(a, "slow_down")

(* a 2xx response carrying a non-empty token, under either name *)
CarriesToken(a) ==
    /\ ~a.transport
    /\ a.ok
    /\ (a.access_token \notin {"", " "} \/ a.api_key \notin {"", " "})

(* the wait the claim states for an answer that asks to go on *)
StatedWait(a) ==
    IF Answered(a, "slow_down")
    THEN IF a.retry_after_seconds > 0 THEN a.retry_after_seconds * Second
         ELSE login.interval + 2 * Second
    ELSE login.interval

Shorter(x, y) == IF x < y THEN x ELSE y

LoginTimedOut ==
    /\ Returned
    /\ err.Code = "login_failed"
    /\ err.ExitCode = 2
    /\ err.Err = <<"login timed out after ", SecondsText(login.timeout),
                   " seconds">>

LoginFailedWithoutToken ==
    /\ Returned
    /\ err.Code = "login_failed"
    /\ login.token = ""

\* C35: in the device-login poll loop, an answer of authorization_pending
\* or slow_down is followed by a wait (the interval; for slow_down the
\* server's retry-after, or the interval plus 2 s when none is given; never
\* longer than the time left) and then by another poll, unless the deadline
\* ends the loop first; any other error code and any non-protocol error end
\* the login at once, with no further poll; and a token is held only from a
\* 2xx answer carrying a non-empty token.
C35_PollProtocol ==
    /\ \A i \in 1..LastEvent :
         IsPoll(i) =>
           LET a == login.log[i].answer IN
           IF AsksToGoOn(a)
           THEN IF i = LastEvent
                THEN pc = "login_wait" \/ LoginTimedOut
                ELSE /\ IsWait(i + 1)
                     /\ login.log[i + 1].for =
                          Shorter(StatedWait(a), Deadline - login.log[i + 1].at)
                     /\ login.log[i + 1].for > 0
                     /\ IF i + 1 = LastEvent
                        THEN pc \in {"login_check", "login_poll"} \/ LoginTimedOut
                        ELSE /\ IsPoll(i + 2)
                             /\ login.log[i + 2].at >=
                                  login.log[i + 1].at + login.log[i + 1].for
           ELSE /\ i = LastEvent
                /\ IF CarriesToken(a)
                   THEN login.token \in {a.access_token, a.api_key} \ {"", " "}
                   ELSE LoginFailedWithoutToken
    /\ login.token # "" =>
         /\ LastEvent > 0
         /\ IsPoll(LastEvent)
         /\ CarriesToken(login.log[LastEvent].answer)

C35_Witness ==
    /\ login.token # ""
    /\ \E i \in 1..LastEvent :
         /\ IsPoll(i)
         /\ Answered(login.log[i].answer, "slow_down")
         /\ login.log[i].answer.retry_after_seconds <= 0
         /\ i + 2 <= LastEvent
         /\ login.log[i + 1].for = login.interval + 2 * Second
    /\ \E i \in 1..LastEvent :
         /\ IsPoll(i)
         /\ Answered(login.log[i].answer, "authorization_pending")
         /\ i + 2 <= LastEvent

OnlyAskedToGoOn ==
    \A i \in 1..LastEvent : IsPoll(i) => AsksToGoOn(login.log[i].answer)

\* C36: when the server only ever answers authorization_pending or
\* slow_down, the login ends: no wait runs past the deadline, no poll is
\* started after the deadline, and the login ends as a timeout, reported as
\* login_failed with exit code 2.
C36_EndsByDeadline ==
    /\ <>(Exited \/ ~OnlyAskedToGoOn)
    /\ [](\A i \in 1..LastEvent :
            /\ IsWait(i) => login.log[i].at + login.log[i].for <= Deadline
            /\ IsPoll(i) => login.log[i].at <= Deadline)
    /\ []((Returned /\ LastEvent > 0 /\ OnlyAskedToGoOn) => LoginTimedOut)
    /\ []((Exited /\ LastEvent > 0 /\ OnlyAskedToGoOn) =>
            /\ exitCode = 2
            /\ report.mode = "json" => report.code = "login_failed")

C36_Witness ==
    /\ Exited
    /\ OnlyAskedToGoOn
    /\ exitCode = 2
    /\ \E i \in 1..LastEvent :
         /\ IsWait(i)
         /\ login.log[i].at + login.log[i].for = Deadline
         /\ login.log[i].for < StatedWait(login.log[i].answer)
    /\ \E i \in 1..LastEvent : IsPoll(i) /\ login.log[i].at = Deadline

(* the keys of a configuration file, and the value a key has in it *)
KeysOf(file) ==
    IF ~file.exists THEN {}
    ELSE {file.lines[i].key : i \in 1..Len(file.lines)} \ {"#"}

ValueOf(file, key) ==
    file.lines[CHOOSE i \in 1..Len(file.lines) : file.lines[i].key = key].value

WroteConfig == login.written' /\ ~login.written

\* C37: the login command changes the configuration file only once a token
\* has been obtained (no failure before that touches it), and a successful
\* write sets base_url and api_key and leaves every other key of the file
\* with the value it had.
C37_ConfigOnlyAfterToken ==
    [][/\ config' # config => (pc = "login_write" /\ login.token # "")
       /\ WroteConfig =>
            /\ config'.exists
            /\ KeysOf(config') = KeysOf(config) \cup {"base_url", "api_key"}
            /\ ValueOf(config', "base_url") = BaseURL
            /\ ValueOf(config', "api_key") = login.token
            /\ \A k \in KeysOf(config) \ {"base_url", "api_key"} :
                 ValueOf(config', k) = ValueOf(config, k)]_vars

C37_Witness ==
    /\ Exited
    /\ exitCode = 0
    /\ login.written
    /\ KeysOf(config) = {"api_key", "base_url", "visibility"}
    /\ ValueOf(config, "visibility") = "private"
    /\ ValueOf(config, "api_key") = login.token
====
